---- MODULE Spec2Model ----
(***************************************************************************)
(* Model of ai_traffic_simulation.py: the adaptive signal scheduler        *)
(* (repeat_signal_cycle, update_signal_values, calculate_green_time), the  *)
(* vehicle motion rules (Vehicle.move and its helpers), the vehicle        *)
(* generator and the simulation timer, as the threads the program starts.  *)
(*                                                                         *)
(* Numbers.  Coordinates are kept in units of 1/20 pixel, so that every    *)
(* speed and turning displacement of the source (1.15, 0.6, 1.8, 2.5, ...) *)
(* is an integer: Px(n) is n pixels.  Positions are exact rationals here;  *)
(* the source accumulates them in binary floating point.                   *)
(* The priority score of the scheduler is a float in the source; it is     *)
(* modelled by an integer that orders exactly as the float does            *)
(* (PriorityScore).                                                        *)
(*                                                                         *)
(* Threads.  The scheduler thread is modelled statement group by statement *)
(* group (sched_pc); every time.sleep is a point where the other threads   *)
(* run.  The main loop's pass over the sprite group calls vehicle.move()   *)
(* on every vehicle; a Frames step runs FramesPerStep such passes.         *)
(*                                                                         *)
(* Specifications.  Spec is the program from its start, the threads        *)
(* interleaved.  SpecSelect starts the scheduler at a selection or at a    *)
(* sizing over drawn traffic (queues of every approach, ticks, last-served *)
(* ticks) and follows the selection, the sizing and the look-ahead only.   *)
(* SpecMove follows the main loop one vehicle.move() at a time over two    *)
(* vehicles of one approach, with yellow beginning at any point.           *)
(* SpecClockFair is the clock thread from tick 0 to the end of the         *)
(* process, its steps taken fairly, with the exit of the main loop.        *)
(* SpecReport is output_simulation_metrics read by read, the main loop     *)
(* running on beside it.                                                   *)
(* SpecYellow is the end of a green phase and the yellow phase after it,   *)
(* with a vehicle under construction or just created on the approach.      *)
(* SpecLookAhead is calculate_green_time over drawn queues.  SpecServe is  *)
(* the scheduler and the timer thread over several rounds on standing      *)
(* queues, their steps taken fairly.                                       *)
(***************************************************************************)
EXTENDS Integers, Sequences, FiniteSets, TLC

(***************************************************************************)
(* Bounds of the model (not program constants).                            *)
(***************************************************************************)
\* vehicles the generator creates in one run of the model
MaxVehicles == 1
\* the simulation timer is followed up to this tick
MaxTick == 1
\* green phases the scheduler is followed through
MaxCycles == 2
\* waiting_time saturates here (nothing in the program reads it)
MaxWaiting == 1
\* main-loop passes taken in one Frames step
FramesPerStep == 600
\* the longest queue on one approach among the drawn selection inputs
MaxQueued == 110
\* the later of the two ticks the selection inputs are drawn at
LateTick == 10
\* main-loop passes between the two vehicles created in the drawn motion inputs
SpawnGap == 60
\* the longest standing queue the scheduler is followed on
ServeQueue == 2
\* clock ticks and green phases it is followed through: a queue of one is
\* passed over for a queue of q while 0.2 * (ticks between their last
\* services) does not exceed q - 1
ServeTicks == 5 * (ServeQueue - 1) + 2
ServeCycles == ServeTicks + 2

(***************************************************************************)
(* Configuration constants, lines 21-32 and 108-111.                       *)
(***************************************************************************)
DEFAULT_RED == 150
DEFAULT_YELLOW == 5
DEFAULT_GREEN == 20
DEFAULT_MINIMUM == 10
DEFAULT_MAXIMUM == 60
SIM_TIME == 300
NO_OF_SIGNALS == 4
NO_OF_LANES == 2
DETECTION_TIME == 5
ROTATION_ANGLE == 3

Px(n) == 20 * n

STOPPING_GAP == Px(15)
MOVING_GAP == Px(15)

Approaches == 0 .. (NO_OF_SIGNALS - 1)
Lanes == 0 .. 2

\* DIRECTIONS, lines 64-69
DIRECTIONS(i) ==
    CASE i = 0 -> "right"
      [] i = 1 -> "down"
      [] i = 2 -> "left"
      [] i = 3 -> "up"

\* VEHICLE_TYPES, lines 54-61
VEHICLE_TYPES(k) ==
    CASE k = 0 -> "car"
      [] k = 1 -> "bus"
      [] k = 2 -> "truck"
      [] k = 3 -> "rickshaw"
      [] k = 4 -> "bike"
      [] k = 5 -> "emergency"

\* VEHICLE_SPEEDS, lines 44-51, in 1/20 pixel per move
VEHICLE_SPEEDS(c) ==
    CASE c = "car" -> 23
      [] c = "bus" -> 12
      [] c = "truck" -> 12
      [] c = "rickshaw" -> 16
      [] c = "bike" -> 26
      [] c = "emergency" -> 34

\* VEHICLE_TIMES.get(vtype, 1), lines 35-41 and 567, in quarter seconds
\* ('emergency' has no entry and takes the default 1)
VEHICLE_TIMES(c) ==
    CASE c = "car" -> 8
      [] c = "bike" -> 4
      [] c = "rickshaw" -> 9
      [] c = "bus" -> 10
      [] c = "truck" -> 10
      [] OTHER -> 4

\* SPAWN_COORDS, lines 72-77
SPAWN_X(d, lane) ==
    CASE d = "right" -> Px(0)
      [] d = "down" -> Px(<<755, 727, 697>>[lane + 1])
      [] d = "left" -> Px(1400)
      [] d = "up" -> Px(<<602, 627, 657>>[lane + 1])

SPAWN_Y(d, lane) ==
    CASE d = "right" -> Px(<<348, 370, 398>>[lane + 1])
      [] d = "down" -> Px(0)
      [] d = "left" -> Px(<<498, 466, 436>>[lane + 1])
      [] d = "up" -> Px(800)

\* STOP_LINES, lines 80-85
STOP_LINES(d) ==
    CASE d = "right" -> Px(590)
      [] d = "down" -> Px(330)
      [] d = "left" -> Px(800)
      [] d = "up" -> Px(535)

\* DEFAULT_STOPS, lines 88-93
DEFAULT_STOPS(d) ==
    CASE d = "right" -> Px(580)
      [] d = "down" -> Px(320)
      [] d = "left" -> Px(810)
      [] d = "up" -> Px(545)

\* TURN_MIDPOINTS, lines 101-106
TURN_MID_X(d) ==
    CASE d = "right" -> Px(705)
      [] d = "down" -> Px(695)
      [] d = "left" -> Px(695)
      [] d = "up" -> Px(695)

TURN_MID_Y(d) ==
    CASE d = "right" -> Px(445)
      [] d = "down" -> Px(450)
      [] d = "left" -> Px(425)
      [] d = "up" -> Px(400)

\* current_image.get_rect().width / .height: the image files are assets, not
\* code; one extent stands for every class and orientation
ImageWidth(v) == Px(40)
ImageHeight(v) == Px(40)

\* the window, lines 802-803; a vehicle this far outside it is no longer
\* followed (in the program it keeps moving for ever)
SceneLeft == Px(0 - 100)
SceneRight == Px(1400 + 100)
SceneTop == Px(0 - 100)
SceneBottom == Px(800 + 100)

NoLane == 0 - 1
NoTime == 0 - 1
NoStop == 0 - 1000000

Min2(a, b) == IF a < b THEN a ELSE b
Max2(a, b) == IF a > b THEN a ELSE b

VARIABLES
    signals,               \* signals[i]: red, yellow, green, total_green_time
    time_elapsed,
    current_green,
    current_yellow,
    lane_last_green_time,
    waiting_times,         \* the wait-time series
    veh,                   \* every Vehicle object created, by creation order
    lanes,                 \* vehicles[direction][lane], as vehicle numbers
    crossedCount,          \* vehicles[direction]['crossed']
    simulation,            \* the sprite group, in insertion order
    sched_pc,              \* where the scheduler thread stands
    selected_lane,         \* local of repeat_signal_cycle
    emergency_round,       \* earliest_emergency_lane is not None this round
    max_waiting_bound,     \* locals max_waiting, max_waiting_time, priorities bound
    cycles,                \* green phases started (bounds the model)
    detection,             \* the look-ahead thread: pc, next_signal, green_time
    gen_pc,                \* generator: "sleep" or "building" (inside Vehicle())
    clock_pc,              \* timer thread: "run", "slept", "exited"
    metrics,               \* the report written at the end of the run
    pass                   \* main loop: todo, the sprites its pass over the
                           \* group has still to move; phase, the (green
                           \* index, yellow flag) the first move of the pass
                           \* read (kept for stating properties)

vars == << signals, time_elapsed, current_green, current_yellow,
           lane_last_green_time, waiting_times, veh, lanes, crossedCount,
           simulation, sched_pc, selected_lane, emergency_round,
           max_waiting_bound, cycles, detection, gen_pc, clock_pc, metrics,
           pass >>

schedVars == << signals, current_green, current_yellow, lane_last_green_time,
                sched_pc, selected_lane, emergency_round, max_waiting_bound,
                cycles >>
worldVars == << waiting_times, veh, lanes, crossedCount, simulation >>

(***************************************************************************)
(* Vehicle objects.                                                        *)
(***************************************************************************)
\* Vehicle.__init__, lines 151-174: the fields set before the image is
\* loaded; index is the position in the lane list at the append
NewVehicle(lane, vclass, dnum, will_turn, te, index) ==
    [ lane |-> lane, vehicle_class |-> vclass, direction_number |-> dnum,
      direction |-> DIRECTIONS(dnum),
      x |-> SPAWN_X(DIRECTIONS(dnum), lane),
      y |-> SPAWN_Y(DIRECTIONS(dnum), lane),
      crossed |-> 0, will_turn |-> will_turn, turned |-> 0,
      rotate_angle |-> 0, waiting_time |-> 0, spawn_time |-> te,
      cross_time |-> NoTime, index |-> index, stop |-> NoStop ]

Speed(v) == VEHICLE_SPEEDS(v.vehicle_class)

\* PosIn giving the first position for a vehicle that is not in the list
PosInOrFirst(ll, id) ==
    IF \E k \in 1 .. Len(ll) : ll[k] = id
    THEN CHOOSE k \in 1 .. Len(ll) : ll[k] = id
    ELSE 1

\* position of vehicle number id in a lane list (0 when it is not there)
PosIn(ll, id) ==
    IF \E k \in 1 .. Len(ll) : ll[k] = id
    THEN CHOOSE k \in 1 .. Len(ll) : ll[k] = id
    ELSE 0

RemoveFrom(ll, id) == SelectSeq(ll, LAMBDA e : e # id)

\* the model stops following a vehicle that is far outside the window
FarOutside(v) ==
    \/ v.x < SceneLeft
    \/ v.x > SceneRight
    \/ v.y < SceneTop
    \/ v.y > SceneBottom

(***************************************************************************)
(* Vehicle._check_crossing, lines 238-248: has the leading edge passed the *)
(* stop line of the approach.                                              *)
(***************************************************************************)
PastStopLine(v) ==
    CASE v.direction = "right" -> v.x + ImageWidth(v) > STOP_LINES(v.direction)
      [] v.direction = "down" -> v.y + ImageHeight(v) > STOP_LINES(v.direction)
      [] v.direction = "left" -> v.x < STOP_LINES(v.direction)
      [] v.direction = "up" -> v.y < STOP_LINES(v.direction)

\* GreenFor with the test of 'down' reading the index of 'right'
GreenForShared(d, cg, cy) ==
    CASE d = "right" -> cg = 0 /\ cy = 0
      [] d = "down" -> cg = 0 /\ cy = 0
      [] d = "left" -> cg = 2 /\ cy = 0
      [] d = "up" -> cg = 3 /\ cy = 0

\* the signal condition each direction's move rule tests, e.g. line 269:
\* (current_green == 0 and current_yellow == 0) for 'right'
GreenFor(d, cg, cy) ==
    CASE d = "right" -> cg = 0 /\ cy = 0
      [] d = "down" -> cg = 1 /\ cy = 0
      [] d = "left" -> cg = 2 /\ cy = 0
      [] d = "up" -> cg = 3 /\ cy = 0

\* Main._draw_signals, lines 881-896: the lamp drawn for approach i
SignalShown(i, cg, cy) ==
    IF i = cg
    THEN IF cy = 1 THEN "yellow" ELSE "green"
    ELSE "red"

\* how far the leading edge of v is from the stop line of its approach, by
\* the edges Vehicle._check_crossing compares, lines 240-247
DistanceToStopLine(v) ==
    CASE v.direction = "right" -> STOP_LINES(v.direction) - (v.x + ImageWidth(v))
      [] v.direction = "down" -> STOP_LINES(v.direction) - (v.y + ImageHeight(v))
      [] v.direction = "left" -> v.x - STOP_LINES(v.direction)
      [] v.direction = "up" -> v.y - STOP_LINES(v.direction)

(***************************************************************************)
(* The move rules.  v is the vehicle (after _check_crossing), idx its      *)
(* 0-based index in its lane list, p the vehicle at idx - 1 (v itself when *)
(* idx = 0, where it is not read).  Each gives the vehicle after the call. *)
(***************************************************************************)
\* MoveRightStraight without the test of the gap to the vehicle in front
MoveRightStraightNoGap(v, idx, p, cg, cy) ==
    LET can_move ==
            \/ v.x + ImageWidth(v) <= v.stop
            \/ v.crossed = 1
            \/ GreenFor("right", cg, cy)
    IN  IF can_move THEN [v EXCEPT !.x = @ + Speed(v)] ELSE v

\* Vehicle._move_right_straight, lines 264-278
MoveRightStraight(v, idx, p, cg, cy) ==
    LET can_move ==
            /\ \/ v.x + ImageWidth(v) <= v.stop
               \/ v.crossed = 1
               \/ GreenFor("right", cg, cy)
            /\ \/ idx = 0
               \/ v.x + ImageWidth(v) < p.x - MOVING_GAP
               \/ p.turned = 1
    IN  IF can_move THEN [v EXCEPT !.x = @ + Speed(v)] ELSE v

\* MoveRightTurn with the rotation made only while the approach has green
MoveRightTurnGated(v, idx, p, cg, cy) ==
    IF v.crossed = 0 \/ v.x + ImageWidth(v) < TURN_MID_X(v.direction)
    THEN MoveRightStraight(v, idx, p, cg, cy)
    ELSE IF v.turned = 0
         THEN IF GreenFor("right", cg, cy)
              THEN [v EXCEPT !.rotate_angle = @ + ROTATION_ANGLE,
                             !.x = @ + 40,
                             !.y = @ + 36,
                             !.turned = IF v.rotate_angle + ROTATION_ANGLE = 90
                                        THEN 1 ELSE @]
              ELSE v
         ELSE [v EXCEPT !.y = @ + Speed(v)]

\* Vehicle._move_right_turn, lines 280-317
MoveRightTurn(v, idx, p, cg, cy) ==
    IF v.crossed = 0 \/ v.x + ImageWidth(v) < TURN_MID_X(v.direction)
    THEN LET can_move ==
                 /\ \/ v.x + ImageWidth(v) <= v.stop
                    \/ GreenFor("right", cg, cy)
                    \/ v.crossed = 1
                 /\ \/ idx = 0
                    \/ v.x + ImageWidth(v) < p.x - MOVING_GAP
                    \/ p.turned = 1
         IN  IF can_move THEN [v EXCEPT !.x = @ + Speed(v)] ELSE v
    ELSE IF v.turned = 0
         THEN [v EXCEPT !.rotate_angle = @ + ROTATION_ANGLE,
                        !.x = @ + 40,
                        !.y = @ + 36,
                        !.turned = IF v.rotate_angle + ROTATION_ANGLE = 90
                                   THEN 1 ELSE @]
         ELSE LET can_move ==
                      \/ idx = 0
                      \/ v.y + ImageHeight(v) < p.y - MOVING_GAP
                      \/ v.x + ImageWidth(v) < p.x - MOVING_GAP
              IN  IF can_move THEN [v EXCEPT !.y = @ + Speed(v)] ELSE v

\* Vehicle._move_down_straight, lines 326-340
MoveDownStraight(v, idx, p, cg, cy) ==
    LET can_move ==
            /\ \/ v.y + ImageHeight(v) <= v.stop
               \/ v.crossed = 1
               \/ GreenFor("down", cg, cy)
            /\ \/ idx = 0
               \/ v.y + ImageHeight(v) < p.y - MOVING_GAP
               \/ p.turned = 1
    IN  IF can_move THEN [v EXCEPT !.y = @ + Speed(v)] ELSE v

\* Vehicle._move_down_turn, lines 342-379
MoveDownTurn(v, idx, p, cg, cy) ==
    IF v.crossed = 0 \/ v.y + ImageHeight(v) < TURN_MID_Y(v.direction)
    THEN LET can_move ==
                 /\ \/ v.y + ImageHeight(v) <= v.stop
                    \/ GreenFor("down", cg, cy)
                    \/ v.crossed = 1
                 /\ \/ idx = 0
                    \/ v.y + ImageHeight(v) < p.y - MOVING_GAP
                    \/ p.turned = 1
         IN  IF can_move THEN [v EXCEPT !.y = @ + Speed(v)] ELSE v
    ELSE IF v.turned = 0
         THEN [v EXCEPT !.rotate_angle = @ + ROTATION_ANGLE,
                        !.x = @ - 50,
                        !.y = @ + 40,
                        !.turned = IF v.rotate_angle + ROTATION_ANGLE = 90
                                   THEN 1 ELSE @]
         ELSE LET can_move ==
                      \/ idx = 0
                      \/ v.x > p.x + ImageWidth(p) + MOVING_GAP
                      \/ v.y < p.y - MOVING_GAP
              IN  IF can_move THEN [v EXCEPT !.x = @ - Speed(v)] ELSE v

\* MoveLeftStraight without the test of the stop position and the signal
MoveLeftStraightAnyPhase(v, idx, p, cg, cy) ==
    LET can_move ==
            \/ idx = 0
            \/ v.x > p.x + ImageWidth(p) + MOVING_GAP
    IN  IF can_move THEN [v EXCEPT !.x = @ - Speed(v)] ELSE v

\* Vehicle._move_left_straight, lines 412-425
MoveLeftStraight(v, idx, p, cg, cy) ==
    LET can_move ==
            /\ \/ v.x >= v.stop
               \/ v.crossed = 1
               \/ GreenFor("left", cg, cy)
            /\ \/ idx = 0
               \/ v.x > p.x + ImageWidth(p) + MOVING_GAP
    IN  IF can_move THEN [v EXCEPT !.x = @ - Speed(v)] ELSE v

\* Vehicle._move_left_turn, lines 427-464
MoveLeftTurn(v, idx, p, cg, cy) ==
    IF v.crossed = 0 \/ v.x > TURN_MID_X(v.direction)
    THEN LET can_move ==
                 /\ \/ v.x >= v.stop
                    \/ GreenFor("left", cg, cy)
                    \/ v.crossed = 1
                 /\ \/ idx = 0
                    \/ v.x > p.x + ImageWidth(p) + MOVING_GAP
                    \/ p.turned = 1
         IN  IF can_move THEN [v EXCEPT !.x = @ - Speed(v)] ELSE v
    ELSE IF v.turned = 0
         THEN [v EXCEPT !.rotate_angle = @ + ROTATION_ANGLE,
                        !.x = @ - 36,
                        !.y = @ - 50,
                        !.turned = IF v.rotate_angle + ROTATION_ANGLE = 90
                                   THEN 1 ELSE @]
         ELSE LET can_move ==
                      \/ idx = 0
                      \/ v.y > p.y + ImageHeight(p) + MOVING_GAP
                      \/ v.x > p.x + MOVING_GAP
              IN  IF can_move THEN [v EXCEPT !.y = @ - Speed(v)] ELSE v

\* MoveUpStraight advancing by one unit more than the class speed
MoveUpStraightFast(v, idx, p, cg, cy) ==
    LET can_move ==
            /\ \/ v.y >= v.stop
               \/ v.crossed = 1
               \/ GreenFor("up", cg, cy)
            /\ \/ idx = 0
               \/ v.y > p.y + ImageHeight(p) + MOVING_GAP
               \/ p.turned = 1
    IN  IF can_move THEN [v EXCEPT !.y = @ - (Speed(v) + 1)] ELSE v

\* Vehicle._move_up_straight, lines 473-487
MoveUpStraight(v, idx, p, cg, cy) ==
    LET can_move ==
            /\ \/ v.y >= v.stop
               \/ v.crossed = 1
               \/ GreenFor("up", cg, cy)
            /\ \/ idx = 0
               \/ v.y > p.y + ImageHeight(p) + MOVING_GAP
               \/ p.turned = 1
    IN  IF can_move THEN [v EXCEPT !.y = @ - Speed(v)] ELSE v

\* Vehicle._move_up_turn, lines 489-526
MoveUpTurn(v, idx, p, cg, cy) ==
    IF v.crossed = 0 \/ v.y > TURN_MID_Y(v.direction)
    THEN LET can_move ==
                 /\ \/ v.y >= v.stop
                    \/ GreenFor("up", cg, cy)
                    \/ v.crossed = 1
                 /\ \/ idx = 0
                    \/ v.y > p.y + ImageHeight(p) + MOVING_GAP
                    \/ p.turned = 1
         IN  IF can_move THEN [v EXCEPT !.y = @ - Speed(v)] ELSE v
    ELSE IF v.turned = 0
         THEN [v EXCEPT !.rotate_angle = @ + ROTATION_ANGLE,
                        !.x = @ + 20,
                        !.y = @ - 20,
                        !.turned = IF v.rotate_angle + ROTATION_ANGLE = 90
                                   THEN 1 ELSE @]
         ELSE LET can_move ==
                      \/ idx = 0
                      \/ v.x < p.x - ImageWidth(p) - MOVING_GAP
                      \/ v.y > p.y + MOVING_GAP
              IN  IF can_move THEN [v EXCEPT !.x = @ + Speed(v)] ELSE v

\* Vehicle._move_left_after_crossing, lines 393-399: the nearest vehicle
\* ahead in the lane list that is still on the scene (0: none); j is the
\* 1-based position the search stands at
RECURSIVE AheadOf(_, _, _)
AheadOf(vs, ll, j) ==
    IF j < 1 THEN 0
    ELSE IF vs[ll[j]].x + ImageWidth(vs[ll[j]]) > 0 THEN ll[j]
    ELSE AheadOf(vs, ll, j - 1)

\* Vehicle._move_left_after_crossing, lines 401-403: may it advance
LeftAfterCrossingCanMove(v, a, vs) ==
    \/ a = 0
    \/ v.x > vs[a].x + ImageWidth(vs[a]) + MOVING_GAP

\* Vehicle._move_left_after_crossing, lines 405-409: is it taken out of its
\* lane list (reached only when it did not advance)
LeftRemoves(v) == v.x + ImageWidth(v) < Px(0 - 10)

(***************************************************************************)
(* Vehicle.move, lines 210-236, on the world W = the vehicle objects, the  *)
(* lane lists, the crossed counters, the wait-time series and the sprite   *)
(* group.  cg, cy, te are current_green, current_yellow and time_elapsed   *)
(* as the call reads them.                                                 *)
(***************************************************************************)
\* Vehicle._move_right, _move_down, _move_up and the uncrossed half of
\* _move_left (lines 257-262, 319-324, 385-389, 466-471)
MoveByDirection(v, idx, p, cg, cy) ==
    CASE v.direction = "right" ->
             IF v.will_turn = 1 THEN MoveRightTurn(v, idx, p, cg, cy)
             ELSE MoveRightStraight(v, idx, p, cg, cy)
      [] v.direction = "down" ->
             IF v.will_turn = 1 THEN MoveDownTurn(v, idx, p, cg, cy)
             ELSE MoveDownStraight(v, idx, p, cg, cy)
      [] v.direction = "left" ->
             IF v.will_turn = 1 THEN MoveLeftTurn(v, idx, p, cg, cy)
             ELSE MoveLeftStraight(v, idx, p, cg, cy)
      [] v.direction = "up" ->
             IF v.will_turn = 1 THEN MoveUpTurn(v, idx, p, cg, cy)
             ELSE MoveUpStraight(v, idx, p, cg, cy)

\* Vehicle._check_crossing with Vehicle._mark_crossed, lines 238-255
MarksCrossed(v) == v.crossed = 0 /\ PastStopLine(v)

\* MarkCrossed recording the tick before the current one
MarkCrossedEarly(v, te) == [v EXCEPT !.crossed = 1, !.cross_time = te - 1]

\* Vehicle._mark_crossed, lines 250-253: the flag and the crossing tick
MarkCrossed(v, te) == [v EXCEPT !.crossed = 1, !.cross_time = te]

\* lines 221-223: waiting_time += 1 while not crossed
CountWaiting(v) ==
    IF v.crossed = 0
    THEN [v EXCEPT !.waiting_time = Min2(@ + 1, MaxWaiting)]
    ELSE v

\* RecordCrossing that leaves the counter of the approach alone
RecordCrossingUncounted(W, v, dn) ==
    [W EXCEPT !.waiting_times = Append(@, v.cross_time - v.spawn_time)]

\* Vehicle._mark_crossed, lines 254-255: the wait enters the series and the
\* counter of the approach goes up
RecordCrossing(W, v, dn) ==
    [W EXCEPT !.waiting_times = Append(@, v.cross_time - v.spawn_time),
              !.crossedCount[dn] = @ + 1]

\* Vehicle.move, lines 210-236, for vehicle number id
MoveVehicle(W, id, cg, cy, te) ==
    LET v0 == W.veh[id]
        dn == v0.direction_number
        ll == W.lanes[dn][v0.lane]
        pos == PosIn(ll, id)
    IN  IF pos = 0 \/ FarOutside(v0)
        THEN W
        ELSE
          LET idx == pos - 1
              v1 == CountWaiting(v0)
              hit == MarksCrossed(v1)
              v2 == IF hit THEN MarkCrossed(v1, te) ELSE v1
              W2 == IF hit THEN RecordCrossing(W, v2, dn) ELSE W
              p == IF idx = 0 THEN v2 ELSE W.veh[ll[pos - 1]]
              leftAfter == v2.direction = "left" /\ v2.crossed = 1
              a == AheadOf(W.veh, ll, pos - 1)
          IN  IF ~leftAfter
              THEN [W2 EXCEPT !.veh[id] = MoveByDirection(v2, idx, p, cg, cy)]
              ELSE IF LeftAfterCrossingCanMove(v2, a, W.veh)
              THEN [W2 EXCEPT !.veh[id] = [v2 EXCEPT !.x = @ - Speed(v2)]]
              ELSE IF LeftRemoves(v2)
              THEN [W2 EXCEPT !.veh[id] = v2,
                              !.lanes[dn][v0.lane] = RemoveFrom(@, id),
                              !.simulation = RemoveFrom(@, id)]
              ELSE [W2 EXCEPT !.veh[id] = v2]

\* Main._run_main_loop, lines 867-869: one pass over the sprite group as it
\* was when the pass began
RECURSIVE RunPass(_, _, _, _, _)
RunPass(W, todo, cg, cy, te) ==
    IF todo = << >> THEN W
    ELSE RunPass(MoveVehicle(W, Head(todo), cg, cy, te), Tail(todo), cg, cy, te)

(***************************************************************************)
(* A run of passes with no other thread running in between.  The passes    *)
(* are the ones RunPass computes; a stretch of passes that only advance    *)
(* vehicles by the same amounts is taken in one stride.                    *)
(*                                                                         *)
(* Every test a move rule makes on positions compares a coordinate of the  *)
(* vehicle, with or without the image extent, against a fixed value (a     *)
(* stop line, the vehicle's stop position, a turn midpoint, a window or    *)
(* scene edge), or against the coordinate of another vehicle of its lane   *)
(* list offset by an extent and a gap.  While the sign of each of these    *)
(* differences stays what it was, and no other field changed, a pass       *)
(* takes the branches the previous pass took and moves every vehicle by    *)
(* the same amount.  A difference changes linearly from pass to pass, so   *)
(* its sign is kept up to a pass that StepsWhile computes.                 *)
(***************************************************************************)
\* how many further steps of d keep the sign of a (at most FramesPerStep)
StepsWhile(a, d) ==
    IF d = 0 THEN FramesPerStep
    ELSE IF a = 0 THEN 0
    ELSE IF (a < 0) = (d < 0) THEN FramesPerStep
    ELSE IF a < 0 THEN (0 - a - 1) \div d
    ELSE (a - 1) \div (0 - d)

\* the fixed values the x coordinate of vehicle v is compared against, with
\* and without the image extent: the scene edges, the window edge tests of
\* lines 395 and 405, and on a horizontal approach the stop line, the stop
\* position and the turn midpoint
XMarks(v) ==
    { SceneLeft, SceneRight, 0 - ImageWidth(v), Px(0 - 10) - ImageWidth(v) }
      \cup IF v.direction \in {"right", "left"}
           THEN { STOP_LINES(v.direction), v.stop, TURN_MID_X(v.direction),
                  STOP_LINES(v.direction) - ImageWidth(v),
                  v.stop - ImageWidth(v),
                  TURN_MID_X(v.direction) - ImageWidth(v) }
           ELSE { }

\* the same for the y coordinate
YMarks(v) ==
    { SceneTop, SceneBottom }
      \cup IF v.direction \in {"down", "up"}
           THEN { STOP_LINES(v.direction), v.stop, TURN_MID_Y(v.direction),
                  STOP_LINES(v.direction) - ImageHeight(v),
                  v.stop - ImageHeight(v),
                  TURN_MID_Y(v.direction) - ImageHeight(v) }
           ELSE { }

\* the offsets between the coordinates of two vehicles of a lane list,
\* where the other vehicle moves by e and may have moved in the pass already
PairMarks(e) ==
    { 0 - Px(40) - MOVING_GAP, 0 - MOVING_GAP, MOVING_GAP, Px(40) + MOVING_GAP,
      e - Px(40) - MOVING_GAP, e - MOVING_GAP, e + MOVING_GAP,
      e + Px(40) + MOVING_GAP }

\* steps of d that keep the sign of a - t for every t of marks: the mark
\* nearest ahead of a decides
StepsOver(a, d, marks) ==
    IF d = 0 THEN FramesPerStep
    ELSE IF a \in marks THEN 0
    ELSE LET ahead == { t \in marks : (t > a) = (d > 0) }
         IN  IF ahead = { } THEN FramesPerStep
             ELSE LET near == CHOOSE t \in ahead :
                                  \A u \in ahead : (t - a) * (t - a) <= (u - a) * (u - a)
                  IN  StepsWhile(a - near, d)

\* steps that keep every comparison of vehicle id with the vehicles of its
\* lane list from position k on
RECURSIVE StepsLane(_, _, _, _, _)
StepsLane(W, W1, id, ll, k) ==
    IF k > Len(ll) THEN FramesPerStep
    ELSE IF ll[k] = id THEN StepsLane(W, W1, id, ll, k + 1)
    ELSE LET v == W.veh[id]
             u == W.veh[ll[k]]
             dx == W1.veh[id].x - v.x
             dy == W1.veh[id].y - v.y
             ex == W1.veh[ll[k]].x - u.x
             ey == W1.veh[ll[k]].y - u.y
         IN  Min2(Min2(StepsOver(v.x - u.x, dx - ex, PairMarks(ex)),
                       StepsOver(v.y - u.y, dy - ey, PairMarks(ey))),
                  StepsLane(W, W1, id, ll, k + 1))

\* steps that keep every comparison of the vehicles from number id on
RECURSIVE StepsAll(_, _, _)
StepsAll(W, W1, id) ==
    IF id > Len(W.veh) THEN FramesPerStep
    ELSE LET v == W.veh[id]
             ll == W.lanes[v.direction_number][v.lane]
             own == Min2(StepsOver(v.x, W1.veh[id].x - v.x, XMarks(v)),
                         StepsOver(v.y, W1.veh[id].y - v.y, YMarks(v)))
             others == IF Len(ll) > 1 THEN StepsLane(W, W1, id, ll, 1)
                       ELSE FramesPerStep
         IN  Min2(Min2(own, others), StepsAll(W, W1, id + 1))

\* the world without the positions
Unplaced(W) ==
    [W EXCEPT !.veh = [i \in 1 .. Len(W.veh) |->
                           [W.veh[i] EXCEPT !.x = 0, !.y = 0]]]

\* the vehicles from number i on moved k times more by what the pass from
\* vs0 to vs moved them
RECURSIVE Repeated(_, _, _, _)
Repeated(vs, vs0, k, i) ==
    IF i > Len(vs0) THEN vs
    ELSE Repeated([vs EXCEPT ![i].x = @ + k * (@ - vs0[i].x),
                             ![i].y = @ + k * (@ - vs0[i].y)],
                  vs0, k, i + 1)

\* the world k passes after W1, when each of them moves the vehicles as the
\* pass from W to W1 did
Stride(W, W1, k) == [W1 EXCEPT !.veh = Repeated(W1.veh, W.veh, k, 1)]

\* one pass of a run with S.n passes to go from world S.w, and the passes
\* after it that repeat it
PassAndRepeats(S, cg, cy, te) ==
    LET W == S.w
        W1 == RunPass(W, W.simulation, cg, cy, te)
        k == Min2(S.n - 1, StepsAll(W, W1, 1))
    IN  IF W1 = W THEN [w |-> W, n |-> 0]
        ELSE IF Unplaced(W1) # Unplaced(W) THEN [w |-> W1, n |-> S.n - 1]
        ELSE [w |-> Stride(W, W1, k), n |-> S.n - 1 - k]

\* the run continued for at most m such strides, computed by halves
RECURSIVE RunStrides(_, _, _, _, _)
RunStrides(S, m, cg, cy, te) ==
    IF m = 1 THEN PassAndRepeats(S, cg, cy, te)
    ELSE LET S1 == RunStrides(S, m \div 2, cg, cy, te)
         IN  IF S1.n = 0 THEN S1
             ELSE RunStrides(S1, m - (m \div 2), cg, cy, te)

\* n passes in a row (n >= 1), lines 866-869
RunFrames(W, n, cg, cy, te) == RunStrides([w |-> W, n |-> n], n, cg, cy, te).w

World ==
    [ veh |-> veh, lanes |-> lanes, crossedCount |-> crossedCount,
      waiting_times |-> waiting_times, simulation |-> simulation ]

Running == clock_pc # "exited"

\* the main loop runs FramesPerStep passes
Frames ==
    /\ Running
    /\ LET W == RunFrames(World, FramesPerStep, current_green, current_yellow,
                          time_elapsed)
       IN  /\ W # World
           /\ veh' = W.veh
           /\ lanes' = W.lanes
           /\ crossedCount' = W.crossedCount
           /\ waiting_times' = W.waiting_times
           /\ simulation' = W.simulation
    /\ UNCHANGED << schedVars, time_elapsed, detection, gen_pc, clock_pc, metrics, pass >>

\* line 867, for vehicle in simulation: the pass begins over the sprites the
\* group holds now
BeginPass ==
    /\ Running
    /\ pass.todo = << >>
    /\ simulation # << >>
    /\ pass' = [todo |-> simulation, phase |-> << >>]
    /\ UNCHANGED << schedVars, worldVars, time_elapsed, detection, gen_pc,
                    clock_pc, metrics >>

\* lines 868-869: the next sprite of the pass is drawn and moved
MoveNext ==
    /\ Running
    /\ pass.todo # << >>
    /\ LET W == MoveVehicle(World, Head(pass.todo), current_green,
                            current_yellow, time_elapsed)
       IN  /\ veh' = W.veh
           /\ lanes' = W.lanes
           /\ crossedCount' = W.crossedCount
           /\ waiting_times' = W.waiting_times
           /\ simulation' = W.simulation
    /\ pass' = [todo |-> Tail(pass.todo),
                phase |-> IF pass.phase = << >>
                          THEN << current_green, current_yellow >>
                          ELSE pass.phase]
    /\ UNCHANGED << schedVars, time_elapsed, detection, gen_pc, clock_pc,
                    metrics >>

(***************************************************************************)
(* generate_vehicles, lines 711-732, and Vehicle.__init__.                 *)
(***************************************************************************)
\* Vehicle._set_stop_position, lines 189-204, for the vehicle at 0-based
\* index v.index of lane list ll (Python's index -1 is the last element)
SetStopPosition(v, ll, vs) ==
    LET k == IF v.index = 0 THEN Len(ll) ELSE v.index
        p == vs[ll[k]]
    IN  IF Len(ll) > 1 /\ p.crossed = 0
        THEN CASE v.direction = "right" ->
                      p.stop - ImageWidth(p) - STOPPING_GAP
               [] v.direction = "left" ->
                      p.stop + ImageWidth(p) + STOPPING_GAP
               [] v.direction = "down" ->
                      p.stop - ImageHeight(p) - STOPPING_GAP
               [] v.direction = "up" ->
                      p.stop + ImageHeight(p) + STOPPING_GAP
        ELSE DEFAULT_STOPS(v.direction)

\* lines 714-730 and 151-174: the random draws, the new object, the append
\* to its lane list
GenBegin(dnum, lane, vclass, will_turn) ==
    /\ Running
    /\ gen_pc = "sleep"
    /\ Len(veh) < MaxVehicles
    /\ will_turn = 1 => lane = 2
    /\ LET v == NewVehicle(lane, vclass, dnum, will_turn, time_elapsed,
                           Len(lanes[dnum][lane]))
       IN  /\ veh' = Append(veh, v)
           /\ lanes' = [lanes EXCEPT ![dnum][lane] = Append(@, Len(veh) + 1)]
    /\ gen_pc' = "building"
    /\ UNCHANGED << schedVars, time_elapsed, waiting_times, crossedCount,
                    simulation, detection, clock_pc, metrics, pass >>

\* lines 176-187 and 732: the image, the stop position, the sprite group;
\* then the generator sleeps
GenFinish ==
    /\ Running
    /\ gen_pc = "building"
    /\ LET id == Len(veh)
           v == veh[id]
       IN  /\ veh' = [veh EXCEPT
                        ![id].stop =
                            SetStopPosition(v, lanes[v.direction_number][v.lane],
                                            veh)]
           /\ simulation' = Append(simulation, id)
    /\ gen_pc' = "sleep"
    /\ UNCHANGED << schedVars, time_elapsed, waiting_times, lanes, crossedCount,
                    detection, clock_pc, metrics, pass >>

(***************************************************************************)
(* The signal scheduler: repeat_signal_cycle, lines 577-680.               *)
(***************************************************************************)
\* initialize_signals, lines 529-543
InitialSignals ==
    [ i \in Approaches |->
        [ red |-> CASE i = 0 -> 0
                    [] i = 1 -> 0 + DEFAULT_YELLOW + DEFAULT_GREEN
                    [] OTHER -> DEFAULT_RED,
          yellow |-> DEFAULT_YELLOW,
          green |-> DEFAULT_GREEN,
          total_green_time |-> 0 ] ]

\* the vehicles of one approach in the order the scans read them:
\* for lane in range(3): for v in vehicles[direction][lane]
ApproachSeq(lns, dnum) == lns[dnum][0] \o lns[dnum][1] \o lns[dnum][2]

\* for lane_idx in range(NO_OF_SIGNALS): ..., lines 588-590
ScanSeq(lns) ==
    ApproachSeq(lns, 0) \o ApproachSeq(lns, 1) \o ApproachSeq(lns, 2)
        \o ApproachSeq(lns, 3)

\* sum(1 for lane in range(3) for v in vehicles[...][lane] if v.crossed == 0),
\* lines 623-624, 646-647
WaitingCount(vs, lns, dnum) ==
    Cardinality({k \in 1 .. Len(ApproachSeq(lns, dnum)) :
                    vs[ApproachSeq(lns, dnum)[k]].crossed = 0})

\* lines 591: an emergency vehicle that has not crossed
IsWaitingEmergency(v) == v.crossed = 0 /\ v.vehicle_class = "emergency"

\* arrival_estimate, lines 594-601
ArrivalEstimate(v) ==
    CASE v.direction = "right" -> v.x
      [] v.direction = "left" -> 0 - v.x
      [] v.direction = "up" -> v.y
      [] v.direction = "down" -> 0 - v.y

\* TakesOver with <= for <: the last vehicle scanned wins on equal estimates
TakesOverOnTie(est, best) == best.lane = NoLane \/ est <= best.time

\* lines 603-605: is the estimate taken as the new earliest one
\* (lane = NoLane stands for earliest_emergency_time = inf)
TakesOver(est, best) == best.lane = NoLane \/ est < best.time

\* lines 583-605: the earliest emergency vehicle the scan finds among the
\* vehicles ids read in their order.  What the loop holds after several
\* vehicles is what it holds after the first half of them, taken over by
\* what the second half alone would give where line 603 lets it.
RECURSIVE ScanEmergency(_, _)
ScanEmergency(ids, vs) ==
    IF ids = << >> THEN [time |-> 0, lane |-> NoLane]
    ELSE IF Len(ids) = 1
    THEN IF IsWaitingEmergency(vs[ids[1]])
         THEN [time |-> ArrivalEstimate(vs[ids[1]]),
               lane |-> vs[ids[1]].direction_number]
         ELSE [time |-> 0, lane |-> NoLane]
    ELSE LET l == ScanEmergency(SubSeq(ids, 1, Len(ids) \div 2), vs)
             r == ScanEmergency(SubSeq(ids, Len(ids) \div 2 + 1, Len(ids)), vs)
         IN  IF r.lane # NoLane /\ TakesOver(r.time, l) THEN r ELSE l

\* lines 607-609: earliest_emergency_lane, NoLane for None
EarliestEmergencyLane(vs, lns) == ScanEmergency(ScanSeq(lns), vs).lane

\* waiting_count + 0.2 * waiting_time is computed in binary floating point:
\* the result is the double nearest to (5c + w)/5 or the next double above
\* it.  These are the (c, w), c <= 12 and w <= 41, where it is the one
\* above; there is none with w < 7 for any c.
FloatRoundsUp ==
    { <<1,7>>, <<1,12>>, <<1,14>>, <<1,19>>, <<1,23>>, <<1,24>>, <<1,28>>,
      <<1,29>>, <<1,33>>, <<1,34>>, <<1,38>>, <<1,41>>, <<2,7>>, <<2,14>>,
      <<2,19>>, <<2,23>>, <<2,24>>, <<2,28>>, <<2,29>>, <<2,33>>, <<2,38>>,
      <<2,41>>, <<3,14>>, <<3,19>>, <<3,23>>, <<3,24>>, <<3,28>>, <<3,33>>,
      <<3,38>>, <<3,41>>, <<4,14>>, <<4,19>>, <<4,23>>, <<4,28>>, <<4,33>>,
      <<4,38>>, <<4,41>>, <<5,14>>, <<5,23>>, <<5,28>>, <<5,33>>, <<5,38>>,
      <<5,41>>, <<6,23>>, <<6,28>>, <<6,33>>, <<6,38>>, <<6,41>>, <<7,23>>,
      <<7,28>>, <<7,33>>, <<7,38>>, <<7,41>>, <<8,23>>, <<8,28>>, <<8,33>>,
      <<8,38>>, <<8,41>>, <<9,23>>, <<9,28>>, <<9,33>>, <<9,41>>, <<10,23>>,
      <<10,28>>, <<10,41>>, <<11,23>>, <<11,41>>, <<12,41>> }

\* PriorityScore without the waiting-time term
PriorityScoreCountOnly(c, w) == IF c > 0 THEN 2 * (5 * c) ELSE 0

\* line 626: priority = waiting_count + 0.2 * waiting_time if waiting_count > 0
\* else 0, as an integer that orders as the float does
PriorityScore(c, w) ==
    IF c > 0
    THEN 2 * (5 * c + w) + (IF <<c, w>> \in FloatRoundsUp THEN 1 ELSE 0)
    ELSE 0

\* PriorityTuple taking the clock itself for the waiting time
PriorityTupleSinceStart(vs, lns, te, last, i) ==
    << PriorityScore(WaitingCount(vs, lns, i), te), i,
       WaitingCount(vs, lns, i), te >>

\* line 627: (priority, lane_idx, waiting_count, waiting_time)
PriorityTuple(vs, lns, te, last, i) ==
    << PriorityScore(WaitingCount(vs, lns, i), te - last[i]), i,
       WaitingCount(vs, lns, i), te - last[i] >>

\* TupleLess comparing the priorities only
TupleLessByScore(a, b) == a[1] < b[1]

\* Python's order on these tuples
TupleLess(a, b) ==
    \/ a[1] < b[1]
    \/ a[1] = b[1] /\ a[2] < b[2]
    \/ a[1] = b[1] /\ a[2] = b[2] /\ a[3] < b[3]
    \/ a[1] = b[1] /\ a[2] = b[2] /\ a[3] = b[3] /\ a[4] < b[4]

\* does a come before b after priorities.sort(reverse=True), line 634
SortsBefore(a, b) == TupleLess(b, a)

RECURSIVE InsertSorted(_, _)
InsertSorted(t, sorted) ==
    IF sorted = << >> THEN << t >>
    ELSE IF SortsBefore(Head(sorted), t)
         THEN << Head(sorted) >> \o InsertSorted(t, Tail(sorted))
         ELSE << t >> \o sorted

RECURSIVE SortReverse(_)
SortReverse(ps) ==
    IF ps = << >> THEN << >>
    ELSE InsertSorted(Head(ps), SortReverse(Tail(ps)))

\* Priorities without the filter of line 629
PrioritiesUnfiltered(vs, lns, te, last) ==
    [k \in 1 .. NO_OF_SIGNALS |-> PriorityTuple(vs, lns, te, last, k - 1)]

\* lines 621-629: the priorities kept, those with p[0] > 0
Priorities(vs, lns, te, last) ==
    SelectSeq([k \in 1 .. NO_OF_SIGNALS |-> PriorityTuple(vs, lns, te, last, k - 1)],
              LAMBDA t : t[1] > 0)

\* lines 634-635: _, selected_lane, ... = priorities[0]
NormalSelection(vs, lns, te, last) ==
    SortReverse(Priorities(vs, lns, te, last))[1][2]

\* int(round(n ** 0.85)): RoundThreshold[k] is the least n with
\* round(n ** 0.85) >= k, for k up to 60 (n up to 123)
RoundThreshold ==
    << 1, 2, 3, 5, 6, 8, 10, 11, 13, 15, 16, 18, 20, 22, 24, 26, 28, 29, 31, 33,
       35, 37, 39, 42, 44, 46, 48, 50, 52, 54, 56, 58, 61, 63, 65, 67, 69, 72,
       74, 76, 78, 81, 83, 85, 87, 90, 92, 94, 97, 99, 101, 104, 106, 108, 111,
       113, 116, 118, 120, 123 >>

RoundPow85(n) ==
    Cardinality({k \in 1 .. Len(RoundThreshold) : RoundThreshold[k] <= n})

\* ClampGreen without the lower limit
ClampGreenAbove(g) == Min2(DEFAULT_MAXIMUM, g)

\* line 650 and line 571: max(DEFAULT_MINIMUM, min(DEFAULT_MAXIMUM, g))
ClampGreen(g) == Max2(DEFAULT_MINIMUM, Min2(DEFAULT_MAXIMUM, g))

\* lines 648-650: the nonlinear green time for n waiting vehicles
NonlinearGreen(n) == ClampGreen(8 + RoundPow85(n))

\* lines 556-567: total_time of the waiting vehicles of an approach, in
\* quarter seconds
RECURSIVE ClearanceTime(_, _)
ClearanceTime(ids, vs) ==
    IF ids = << >> THEN 0
    ELSE IF Len(ids) = 1
    THEN IF vs[ids[1]].crossed = 0
         THEN VEHICLE_TIMES(vs[ids[1]].vehicle_class) ELSE 0
    ELSE ClearanceTime(SubSeq(ids, 1, Len(ids) \div 2), vs)
            + ClearanceTime(SubSeq(ids, Len(ids) \div 2 + 1, Len(ids)), vs)

\* LookAheadGreen rounding the quotient down
LookAheadGreenFloor(vs, lns, dnum) ==
    ClampGreen(ClearanceTime(ApproachSeq(lns, dnum), vs)
                   \div (4 * (NO_OF_LANES + 1)))

\* lines 568-571: math.ceil(total_time / (NO_OF_LANES + 1)), clamped
LookAheadGreen(vs, lns, dnum) ==
    ClampGreen((ClearanceTime(ApproachSeq(lns, dnum), vs)
                    + 4 * (NO_OF_LANES + 1) - 1) \div (4 * (NO_OF_LANES + 1)))

\* UpdateSignalValues without the floor of the red counters
UpdateSignalValuesUnfloored(sig, cg, cy) ==
    [ i \in Approaches |->
        IF i = cg
        THEN IF cy = 0
             THEN [sig[i] EXCEPT !.green = @ - 1, !.total_green_time = @ + 1]
             ELSE [sig[i] EXCEPT !.yellow = @ - 1]
        ELSE [sig[i] EXCEPT !.red = @ - 1] ]

\* update_signal_values, lines 696-708
UpdateSignalValues(sig, cg, cy) ==
    [ i \in Approaches |->
        IF i = cg
        THEN IF cy = 0
             THEN [sig[i] EXCEPT !.green = @ - 1, !.total_green_time = @ + 1]
             ELSE [sig[i] EXCEPT !.yellow = @ - 1]
        ELSE [sig[i] EXCEPT !.red = Max2(@ - 1, 0)] ]

(***************************************************************************)
(* Scheduler steps.  sched_pc:                                             *)
(*   "select"      top of the while True loop, line 581                    *)
(*   "idle_sleep"  in time.sleep(1) of line 631                            *)
(*   "set_green"   before line 638, selected_lane chosen                   *)
(*   "size_green"  before line 646                                         *)
(*   "green_loop"  at the test of line 656                                 *)
(*   "yellow_loop" at the test of line 673                                 *)
(*   "crashed"     the thread ended with an exception                      *)
(***************************************************************************)
\* lines 583-618: an emergency vehicle is waiting; emergency override
SelectEmergency ==
    /\ Running
    /\ sched_pc = "select"
    /\ cycles < MaxCycles
    /\ EarliestEmergencyLane(veh, lanes) # NoLane
    /\ selected_lane' = EarliestEmergencyLane(veh, lanes)
    /\ emergency_round' = TRUE
    /\ sched_pc' = "set_green"
    /\ UNCHANGED << signals, current_green, current_yellow, lane_last_green_time,
                    max_waiting_bound, cycles, worldVars, time_elapsed,
                    detection, gen_pc, clock_pc, metrics, pass >>

\* lines 619-635: normal priority, some approach has a waiting vehicle
NormalPriority ==
    /\ Running
    /\ sched_pc = "select"
    /\ EarliestEmergencyLane(veh, lanes) = NoLane
    /\ Priorities(veh, lanes, time_elapsed, lane_last_green_time) # << >>
    /\ selected_lane' =
           NormalSelection(veh, lanes, time_elapsed, lane_last_green_time)
    /\ emergency_round' = FALSE
    /\ max_waiting_bound' = TRUE
    /\ sched_pc' = "set_green"
    /\ UNCHANGED << signals, current_green, current_yellow, lane_last_green_time,
                    cycles, worldVars, time_elapsed, detection, gen_pc,
                    clock_pc, metrics, pass >>

\* NormalPriority while the model follows the scheduler
SelectNormal == cycles < MaxCycles /\ NormalPriority

\* SelectIdle moving the green index on to the next approach
SelectIdleAdvancing ==
    /\ Running
    /\ sched_pc = "select"
    /\ EarliestEmergencyLane(veh, lanes) = NoLane
    /\ Priorities(veh, lanes, time_elapsed, lane_last_green_time) = << >>
    /\ emergency_round' = FALSE
    /\ current_green' = (current_green + 1) % NO_OF_SIGNALS
    /\ sched_pc' = "idle_sleep"
    /\ UNCHANGED << signals, current_yellow, lane_last_green_time,
                    selected_lane, max_waiting_bound, cycles, worldVars,
                    time_elapsed, detection, gen_pc, clock_pc, metrics, pass >>

\* lines 629-632: no approach qualifies; time.sleep(1); continue
SelectIdle ==
    /\ Running
    /\ sched_pc = "select"
    /\ EarliestEmergencyLane(veh, lanes) = NoLane
    /\ Priorities(veh, lanes, time_elapsed, lane_last_green_time) = << >>
    /\ emergency_round' = FALSE
    /\ sched_pc' = "idle_sleep"
    /\ UNCHANGED << signals, current_green, current_yellow, lane_last_green_time,
                    selected_lane, max_waiting_bound, cycles, worldVars,
                    time_elapsed, detection, gen_pc, clock_pc, metrics, pass >>

\* the sleep of line 631 is over
IdleWake ==
    /\ Running
    /\ sched_pc = "idle_sleep"
    /\ sched_pc' = "select"
    /\ UNCHANGED << signals, current_green, current_yellow, lane_last_green_time,
                    selected_lane, emergency_round, max_waiting_bound, cycles,
                    worldVars, time_elapsed, detection, gen_pc, clock_pc,
                    metrics, pass >>

\* MakeGreen leaving lane_last_green_time as it is
MakeGreenUnstamped ==
    /\ signals' = [signals EXCEPT ![selected_lane].red = DEFAULT_RED]
    /\ current_green' = selected_lane
    /\ UNCHANGED lane_last_green_time
    /\ cycles' = cycles + 1

\* lines 638-640: the selected approach becomes the current green one
MakeGreen ==
    /\ signals' = [signals EXCEPT ![selected_lane].red = DEFAULT_RED]
    /\ current_green' = selected_lane
    /\ lane_last_green_time' =
           [lane_last_green_time EXCEPT ![selected_lane] = time_elapsed]
    /\ cycles' = cycles + 1

\* lines 638-643, the prints of lines 642-643 finding their variables
SetGreen ==
    /\ Running
    /\ sched_pc = "set_green"
    /\ max_waiting_bound
    /\ MakeGreen
    /\ sched_pc' = "size_green"
    /\ UNCHANGED << current_yellow, selected_lane, emergency_round,
                    max_waiting_bound, worldVars, time_elapsed, detection,
                    gen_pc, clock_pc, metrics, pass >>

\* lines 638-642 when no normal selection has been made before: max_waiting
\* is an unbound local at the print of line 642 and the thread ends there
SetGreenUnbound ==
    /\ Running
    /\ sched_pc = "set_green"
    /\ ~max_waiting_bound
    /\ MakeGreen
    /\ sched_pc' = "crashed"
    /\ UNCHANGED << current_yellow, selected_lane, emergency_round,
                    max_waiting_bound, worldVars, time_elapsed, detection,
                    gen_pc, clock_pc, metrics, pass >>

\* lines 645-653: the nonlinear green time of the approach now green
SizeGreen ==
    /\ Running
    /\ sched_pc = "size_green"
    /\ signals' = [signals EXCEPT
                     ![current_green].green =
                         NonlinearGreen(WaitingCount(veh, lanes, current_green))]
    /\ sched_pc' = "green_loop"
    /\ UNCHANGED << current_green, current_yellow, lane_last_green_time,
                    selected_lane, emergency_round, max_waiting_bound, cycles,
                    worldVars, time_elapsed, detection, gen_pc, clock_pc,
                    metrics, pass >>

\* line 660: is the look-ahead thread started after this update
StartsDetection(sig, cg) ==
    sig[(cg + 1) % NO_OF_SIGNALS].red = DETECTION_TIME

\* lines 656-665: one iteration of the green loop, up to its sleep
GreenTick ==
    /\ Running
    /\ sched_pc = "green_loop"
    /\ signals[current_green].green > 0
    /\ LET sig == UpdateSignalValues(signals, current_green, current_yellow)
       IN  /\ signals' = sig
           /\ IF StartsDetection(sig, current_green)
              THEN /\ detection.pc = "none"
                   /\ detection' = [detection EXCEPT !.pc = "started"]
              ELSE detection' = detection
    /\ UNCHANGED << current_green, current_yellow, lane_last_green_time,
                    sched_pc, selected_lane, emergency_round, max_waiting_bound,
                    cycles, worldVars, time_elapsed, gen_pc, clock_pc, metrics, pass >>

\* lines 669-671: every vehicle in the lane lists of approach dnum gets the
\* default stop position
ResetStops(vs, lns, dnum) ==
    [ id \in 1 .. Len(vs) |->
        IF vs[id].direction_number = dnum
           /\ PosIn(lns[dnum][vs[id].lane], id) # 0
        THEN [vs[id] EXCEPT !.stop = DEFAULT_STOPS(DIRECTIONS(dnum))]
        ELSE vs[id] ]

\* lines 667-671: the green loop is over; yellow begins
EnterYellow ==
    /\ Running
    /\ sched_pc = "green_loop"
    /\ ~(signals[current_green].green > 0)
    /\ current_yellow' = 1
    /\ veh' = ResetStops(veh, lanes, current_green)
    /\ sched_pc' = "yellow_loop"
    /\ UNCHANGED << signals, current_green, lane_last_green_time, selected_lane,
                    emergency_round, max_waiting_bound, cycles, waiting_times,
                    lanes, crossedCount, simulation, time_elapsed, detection,
                    gen_pc, clock_pc, metrics, pass >>

\* lines 673-676: one iteration of the yellow loop, up to its sleep
YellowTick ==
    /\ Running
    /\ sched_pc = "yellow_loop"
    /\ signals[current_green].yellow > 0
    /\ signals' = UpdateSignalValues(signals, current_green, current_yellow)
    /\ UNCHANGED << current_green, current_yellow, lane_last_green_time,
                    sched_pc, selected_lane, emergency_round, max_waiting_bound,
                    cycles, worldVars, time_elapsed, detection, gen_pc,
                    clock_pc, metrics, pass >>

\* EndYellow leaving the yellow counter where the loop brought it
EndYellowNoReset ==
    /\ Running
    /\ sched_pc = "yellow_loop"
    /\ ~(signals[current_green].yellow > 0)
    /\ current_yellow' = 0
    /\ signals' = [signals EXCEPT ![current_green].red = DEFAULT_RED]
    /\ sched_pc' = "select"
    /\ UNCHANGED << current_green, lane_last_green_time, selected_lane,
                    emergency_round, max_waiting_bound, cycles, worldVars,
                    time_elapsed, detection, gen_pc, clock_pc, metrics, pass >>

\* lines 678-680: yellow is over; back to the top of the loop
EndYellow ==
    /\ Running
    /\ sched_pc = "yellow_loop"
    /\ ~(signals[current_green].yellow > 0)
    /\ current_yellow' = 0
    /\ signals' = [signals EXCEPT ![current_green].yellow = DEFAULT_YELLOW,
                                  ![current_green].red = DEFAULT_RED]
    /\ sched_pc' = "select"
    /\ UNCHANGED << current_green, lane_last_green_time, selected_lane,
                    emergency_round, max_waiting_bound, cycles, worldVars,
                    time_elapsed, detection, gen_pc, clock_pc, metrics, pass >>

(***************************************************************************)
(* calculate_green_time, lines 548-574, run by the "detection" thread.     *)
(***************************************************************************)
\* no look-ahead thread is running
NoDetection == [pc |-> "none", next_signal |-> NoLane, green_time |-> 0]

\* line 553
NextSignal(cg) == (cg + 1) % NO_OF_SIGNALS

\* lines 553-571: the next approach is read and its green time computed
DetectionCompute ==
    /\ Running
    /\ detection.pc = "started"
    /\ detection' =
           [ pc |-> "computed", next_signal |-> NextSignal(current_green),
             green_time |-> LookAheadGreen(veh, lanes, NextSignal(current_green)) ]
    /\ UNCHANGED << schedVars, worldVars, time_elapsed, gen_pc, clock_pc,
                    metrics, pass >>

\* line 574: signals[next_signal].green = green_time
DetectionStore ==
    /\ Running
    /\ detection.pc = "computed"
    /\ signals' = [signals EXCEPT
                     ![detection.next_signal].green = detection.green_time]
    /\ detection' = NoDetection
    /\ UNCHANGED << current_green, current_yellow, lane_last_green_time,
                    sched_pc, selected_lane, emergency_round, max_waiting_bound,
                    cycles, worldVars, time_elapsed, gen_pc, clock_pc, metrics, pass >>

(***************************************************************************)
(* simulation_timer, lines 782-791, and output_simulation_metrics.         *)
(***************************************************************************)
\* line 787, then the sleep of line 788
ClockTick ==
    /\ clock_pc = "run"
    /\ time_elapsed' = time_elapsed + 1
    /\ clock_pc' = "slept"
    /\ UNCHANGED << schedVars, worldVars, detection, gen_pc, metrics, pass >>

\* line 789 when the run is not over
ClockLoop ==
    /\ clock_pc = "slept"
    /\ time_elapsed # SIM_TIME
    /\ clock_pc' = "run"
    /\ UNCHANGED << schedVars, worldVars, detection, gen_pc, time_elapsed,
                    metrics, pass >>

NoMetrics == [ emitted |-> 0 ]

\* the value of average_waiting_time and max_waiting_time when no vehicle
\* has crossed (None, lines 756-757)
NoData == << >>

RECURSIVE SumSeq(_)
SumSeq(q) == IF q = << >> THEN 0 ELSE Head(q) + SumSeq(Tail(q))

RECURSIVE MaxSeq(_)
MaxSeq(q) ==
    IF Len(q) = 1 THEN Head(q) ELSE Max2(Head(q), MaxSeq(Tail(q)))

\* output_simulation_metrics, lines 743-758: the metrics dictionary, from
\* the lane counts lc and the total that the loop of lines 739-741 read,
\* the wait-time series wt and time_elapsed te.  A quotient is kept as
\* << numerator, denominator >>.
Report(lc, total, wt, te) ==
    [ lane_counts |-> lc,
      total_vehicles_passed |-> total,
      total_time_passed |-> te,
      vehicles_per_unit_time |-> IF te # 0 THEN << total, te >> ELSE << 0, 1 >>,
      average_waiting_time |->
          IF wt # << >> THEN << SumSeq(wt), Len(wt) >> ELSE NoData,
      max_waiting_time |-> IF wt # << >> THEN << MaxSeq(wt) >> ELSE NoData ]

\* ClockReport entered one tick before the run is over
ClockReportEarly ==
    /\ clock_pc = "slept"
    /\ time_elapsed = SIM_TIME - 1
    /\ clock_pc' = "report"
    /\ metrics' = [ emitted |-> 0, at |-> 0, read |-> FALSE,
                    lane_counts |-> [i \in Approaches |-> 0], total |-> 0 ]
    /\ UNCHANGED << schedVars, worldVars, detection, gen_pc, time_elapsed,
                    pass >>

\* lines 789-790 and 737-738: the run is over, output_simulation_metrics
\* is entered
ClockReport ==
    /\ clock_pc = "slept"
    /\ time_elapsed = SIM_TIME
    /\ clock_pc' = "report"
    /\ metrics' = [ emitted |-> 0, at |-> 0, read |-> FALSE,
                    lane_counts |-> [i \in Approaches |-> 0], total |-> 0 ]
    /\ UNCHANGED << schedVars, worldVars, detection, gen_pc, time_elapsed,
                    pass >>

\* line 740: the crossed counter of approach metrics.at is read for
\* lane_counts
ReportLaneCount ==
    /\ clock_pc = "report"
    /\ metrics.at < NO_OF_SIGNALS
    /\ ~metrics.read
    /\ metrics' = [metrics EXCEPT
                     !.lane_counts[metrics.at] = crossedCount[metrics.at],
                     !.read = TRUE]
    /\ UNCHANGED << schedVars, worldVars, detection, gen_pc, time_elapsed,
                    clock_pc, pass >>

\* line 741: the same counter is read again for total_vehicles
ReportLaneTotal ==
    /\ clock_pc = "report"
    /\ metrics.at < NO_OF_SIGNALS
    /\ metrics.read
    /\ metrics' = [metrics EXCEPT
                     !.total = @ + crossedCount[metrics.at],
                     !.at = @ + 1,
                     !.read = FALSE]
    /\ UNCHANGED << schedVars, worldVars, detection, gen_pc, time_elapsed,
                    clock_pc, pass >>

\* lines 743-779 and 791: the dictionary is built, saved and printed, and
\* os._exit ends the process with all its threads.  The file of line 761 is
\* taken to open.
ReportEmit ==
    /\ clock_pc = "report"
    /\ metrics.at = NO_OF_SIGNALS
    /\ metrics' = [ emitted |-> 1,
                    report |-> Report(metrics.lane_counts, metrics.total,
                                      waiting_times, time_elapsed) ]
    /\ clock_pc' = "exited"
    /\ UNCHANGED << schedVars, worldVars, detection, gen_pc, time_elapsed,
                    pass >>

\* Main._run_main_loop, lines 848-850 and 872-877: the window is closed (or
\* the loop fails) and the main thread exits; the other threads are daemon
\* threads, so the process ends
Quit ==
    /\ Running
    /\ clock_pc' = "exited"
    /\ UNCHANGED << schedVars, worldVars, detection, gen_pc, time_elapsed,
                    metrics, pass >>

\* the main loop is between two passes over the sprite group
NoPass == [ todo |-> << >>, phase |-> << >> ]

Init ==
    /\ signals = InitialSignals
    /\ time_elapsed = 0
    /\ current_green = 0
    /\ current_yellow = 0
    /\ lane_last_green_time = [i \in Approaches |-> 0]
    /\ waiting_times = << >>
    /\ veh = << >>
    /\ lanes = [d \in Approaches |-> [l \in Lanes |-> << >>]]
    /\ crossedCount = [d \in Approaches |-> 0]
    /\ simulation = << >>
    /\ sched_pc = "select"
    /\ selected_lane = NoLane
    /\ emergency_round = FALSE
    /\ max_waiting_bound = FALSE
    /\ cycles = 0
    /\ detection = NoDetection
    /\ gen_pc = "sleep"
    /\ clock_pc = "run"
    /\ metrics = NoMetrics
    /\ pass = NoPass

\* what the generator draws in the model
SpawnClasses == {"car", "emergency"}
SpawnLanes == {0, 2}

Generate ==
    \E dnum \in Approaches, lane \in SpawnLanes, vclass \in SpawnClasses,
       will_turn \in {0, 1} :
        GenBegin(dnum, lane, vclass, will_turn)

Scheduler ==
    \/ SelectEmergency
    \/ SelectNormal
    \/ SelectIdle
    \/ IdleWake
    \/ SetGreen
    \/ SetGreenUnbound
    \/ SizeGreen
    \/ GreenTick
    \/ EnterYellow
    \/ YellowTick
    \/ EndYellow

Next ==
    \/ Scheduler
    \/ DetectionCompute
    \/ DetectionStore
    \/ Generate
    \/ GenFinish
    \/ Frames
    \/ (time_elapsed < MaxTick /\ ClockTick)
    \/ ClockLoop

Spec == Init /\ [][Next]_vars

(***************************************************************************)
(* The selection and the two green-time computations on drawn inputs.      *)
(* What they read is the vehicles, the lane lists, time_elapsed and        *)
(* lane_last_green_time.  SpecSelect starts the scheduler at the top of    *)
(* its loop (or at the sizing of lines 645-653, or with the look-ahead     *)
(* thread just started) in the middle of a run, on traffic that the        *)
(* generator has created and the main loop may have moved for one run of   *)
(* passes, and follows it through one selection and sizing.                *)
(***************************************************************************)
EmptyWorld ==
    [ veh |-> << >>,
      lanes |-> [d \in Approaches |-> [l \in Lanes |-> << >>]],
      crossedCount |-> [d \in Approaches |-> 0],
      waiting_times |-> << >>,
      simulation |-> << >> ]

\* Vehicle(lane, vclass, dnum, direction, will_turn) as generate_vehicles
\* calls it at tick te, lines 151-187: the world after the constructor
Spawned(W, dnum, lane, vclass, will_turn, te) ==
    LET id == Len(W.veh) + 1
        v == NewVehicle(lane, vclass, dnum, will_turn, te,
                        Len(W.lanes[dnum][lane]))
        ll == Append(W.lanes[dnum][lane], id)
        vs == Append(W.veh, v)
    IN  [W EXCEPT !.veh = [vs EXCEPT ![id].stop = SetStopPosition(v, ll, vs)],
                  !.lanes[dnum][lane] = ll,
                  !.simulation = Append(@, id)]

\* the vehicles of q, a sequence of << lane, class >>, created in turn on
\* approach dnum: those of its first half, then the others
RECURSIVE SpawnedAll(_, _, _)
SpawnedAll(W, dnum, q) ==
    IF q = << >> THEN W
    ELSE IF Len(q) = 1 THEN Spawned(W, dnum, q[1][1], q[1][2], 0, 0)
    ELSE LET W1 == SpawnedAll(W, dnum, SubSeq(q, 1, Len(q) \div 2))
         IN  IF W1.veh = << >> THEN W1
             ELSE SpawnedAll(W1, dnum, SubSeq(q, Len(q) \div 2 + 1, Len(q)))

\* n cars in lane 0
Cars(n) == [k \in 1 .. n |-> << 0, "car" >>]

\* the queues drawn for one approach in the small inputs
Patterns ==
    { << >>, << <<0, "car">> >>, << <<0, "emergency">> >>,
      << <<0, "car">>, <<1, "car">> >> }

\* the queue lengths drawn in the large inputs
QueueSizes == { 0, 1, 17, 103, 104, MaxQueued }

\* the traffic with queue q[d] on each approach d
Traffic(q) ==
    SpawnedAll(SpawnedAll(SpawnedAll(SpawnedAll(EmptyWorld, 0, q[0]), 1, q[1]),
                          2, q[2]), 3, q[3])

\* the variables that are the same in every drawn input
InitSelectCommon ==
    /\ signals = InitialSignals
    /\ current_yellow = 0
    /\ selected_lane = NoLane
    /\ emergency_round = FALSE
    /\ cycles = 0
    /\ gen_pc = "sleep"
    /\ clock_pc = "run"
    /\ metrics = NoMetrics
    /\ pass = NoPass

\* the world variables hold W
InitWorld(W) ==
    /\ veh = W.veh
    /\ lanes = W.lanes
    /\ crossedCount = W.crossedCount
    /\ waiting_times = W.waiting_times
    /\ simulation = W.simulation

\* small traffic, as created or after a run of passes with approach g shown
\* green, at tick 0 or at LateTick with one approach served at that tick
InitSmall ==
    \E q \in [Approaches -> Patterns], g \in Approaches, moved \in BOOLEAN :
        LET W0 == Traffic(q)
            W == IF moved
                 THEN RunFrames(W0, FramesPerStep, g, 0, 0)
                 ELSE W0
        IN  /\ InitWorld(W)
            /\ current_green = g
            /\ \E late \in {0, LateTick}, served \in Approaches \cup {NoLane} :
                  /\ (late = 0) => (served = NoLane)
                  /\ moved => (served \in {g, NoLane})
                  /\ time_elapsed = late
                  /\ lane_last_green_time =
                         [i \in Approaches |-> IF i = served THEN late ELSE 0]
            /\ max_waiting_bound \in BOOLEAN
            /\ sched_pc = "select"
            /\ detection = NoDetection

\* the scheduler at the sizing of approach g, after a run of passes with g
\* shown green
InitSizing ==
    \E q \in [Approaches -> Patterns], g \in Approaches :
        /\ InitWorld(RunFrames(Traffic(q), FramesPerStep, g, 0, 0))
        /\ current_green = g
        /\ time_elapsed = 0
        /\ lane_last_green_time = [i \in Approaches |-> 0]
        /\ max_waiting_bound = TRUE
        /\ sched_pc = "size_green"
        /\ detection = NoDetection

\* long queues of cars on approach g and on the one after it, with or
\* without the look-ahead thread just started
InitLarge ==
    \E g \in Approaches, n \in QueueSizes, m \in QueueSizes :
        /\ InitWorld(SpawnedAll(SpawnedAll(EmptyWorld, g, Cars(n)),
                                NextSignal(g), Cars(m)))
        /\ current_green = g
        /\ time_elapsed = 0
        /\ lane_last_green_time = [i \in Approaches |-> 0]
        /\ max_waiting_bound = TRUE
        /\ sched_pc = "select"
        /\ detection \in { NoDetection, [NoDetection EXCEPT !.pc = "started"] }

\* 12 cars on approach a served 40 s ago, 3 cars on approach b served 5 s ago
InitExample ==
    \E a \in Approaches, b \in Approaches :
        /\ a # b
        /\ InitWorld(SpawnedAll(SpawnedAll(EmptyWorld, a, Cars(12)), b, Cars(3)))
        /\ current_green = b
        /\ time_elapsed = 40
        /\ lane_last_green_time =
               [i \in Approaches |-> IF i = b THEN 35 ELSE 0]
        /\ max_waiting_bound = TRUE
        /\ sched_pc = "select"
        /\ detection = NoDetection

InitSelect ==
    /\ InitSelectCommon
    /\ \/ InitSmall
       \/ InitSizing
       \/ InitLarge
       \/ InitExample

NextSelect ==
    \/ SelectEmergency
    \/ SelectNormal
    \/ SelectIdle
    \/ IdleWake
    \/ SetGreen
    \/ SetGreenUnbound
    \/ SizeGreen
    \/ DetectionCompute
    \/ DetectionStore

SpecSelect == InitSelect /\ [][NextSelect]_vars

(***************************************************************************)
(* The clock thread from the start of the program to the end of the        *)
(* process, with the exit of the main loop.  Its steps are taken fairly:   *)
(* the thread is scheduled, its sleeps end and its file opens.             *)
(***************************************************************************)
NextClock ==
    \/ ClockTick
    \/ ClockLoop
    \/ ClockReport
    \/ ReportLaneCount
    \/ ReportLaneTotal
    \/ ReportEmit
    \/ Quit

SpecClockFair ==
    /\ Init
    /\ [][NextClock]_vars
    /\ WF_vars(ClockTick)
    /\ WF_vars(ClockLoop)
    /\ WF_vars(ClockReport)
    /\ WF_vars(ReportLaneCount)
    /\ WF_vars(ReportLaneTotal)
    /\ WF_vars(ReportEmit)

(***************************************************************************)
(* The main loop move by move.  SpecMove starts in the middle of a run     *)
(* with two vehicles on one approach: the first was created and moved for  *)
(* 0 or SpawnGap passes, then the second was created.  The scheduler stands at  *)
(* the test of line 656 with the green time of the current approach run    *)
(* out, so that yellow may begin at any point; the main loop is followed   *)
(* one vehicle.move() at a time.                                           *)
(***************************************************************************)
\* the two vehicles drawn, each << lane, class, will_turn >>
MovePairs ==
    { << <<0, "car", 0>>, <<0, "emergency", 0>> >>,
      << <<2, "emergency", 1>>, <<2, "bike", 0>> >>,
      << <<2, "rickshaw", 1>>, <<1, "truck", 0>> >>,
      << <<2, "bus", 1>>, <<2, "car", 1>> >> }

\* the main-loop passes between the two creations: none, or SpawnGap
SpawnGaps == {0, SpawnGap}

\* the signals when the green time of approach g has run out
GreenRunOut(g) == [InitialSignals EXCEPT ![g].green = 0]

InitMove ==
    \E a \in Approaches, ahead \in BOOLEAN, pr \in MovePairs,
       gap \in SpawnGaps :
        LET g == IF ahead THEN a ELSE NextSignal(a)
            W1 == Spawned(EmptyWorld, a, pr[1][1], pr[1][2], pr[1][3], 0)
            W2 == IF gap = 0 THEN W1 ELSE RunFrames(W1, gap, g, 0, 0)
            W3 == Spawned(W2, a, pr[2][1], pr[2][2], pr[2][3], 0)
        IN  /\ InitWorld(W3)
            /\ current_green = g
            /\ current_yellow = 0
            /\ signals = GreenRunOut(g)
            /\ time_elapsed = LateTick
            /\ lane_last_green_time = [i \in Approaches |-> 0]
            /\ sched_pc = "green_loop"
            /\ selected_lane = g
            /\ emergency_round = FALSE
            /\ max_waiting_bound = TRUE
            /\ cycles = 1
            /\ detection = NoDetection
            /\ gen_pc = "sleep"
            /\ clock_pc = "run"
            /\ metrics = NoMetrics
            /\ pass = NoPass

NextMove ==
    \/ BeginPass
    \/ MoveNext
    \/ EnterYellow

SpecMove == InitMove /\ [][NextMove]_vars

(***************************************************************************)
(* The end of the run.  SpecReport starts when the clock has counted       *)
(* SIM_TIME ticks and is about to enter output_simulation_metrics, with a  *)
(* vehicle created in the last tick and, or not, a car that has crossed    *)
(* before; the main loop goes on running while the report is made.         *)
(***************************************************************************)
\* the vehicle created last, << lane, class, will_turn >>
LastVehicles == { <<0, "car", 0>>, <<2, "emergency", 1>>, <<1, "truck", 0>> }

\* the world with a car that went over approach g two ticks before the end
\* of the run, all the way out of the scene
EarlierCar(g) ==
    RunFrames(Spawned(EmptyWorld, g, 0, "car", 0, SIM_TIME - 2),
              3 * FramesPerStep, g, 0, SIM_TIME - 1)

InitReport ==
    \E a \in Approaches, ahead \in BOOLEAN, lv \in LastVehicles,
       earlier \in BOOLEAN :
        LET g == IF ahead THEN a ELSE NextSignal(a)
            W2 == IF earlier THEN EarlierCar(g) ELSE EmptyWorld
            W3 == Spawned(W2, a, lv[1], lv[2], lv[3], SIM_TIME - 1)
        IN  /\ InitWorld(W3)
            /\ current_green = g
            /\ current_yellow = 0
            /\ signals = [InitialSignals EXCEPT ![g].red = 0]
            /\ time_elapsed = SIM_TIME
            /\ lane_last_green_time = [i \in Approaches |-> 0]
            /\ sched_pc = "green_loop"
            /\ selected_lane = g
            /\ emergency_round = FALSE
            /\ max_waiting_bound = TRUE
            /\ cycles = 1
            /\ detection = NoDetection
            /\ gen_pc = "sleep"
            /\ clock_pc = "slept"
            /\ metrics = NoMetrics
            /\ pass = NoPass

NextReport ==
    \/ ClockReport
    \/ ReportLaneCount
    \/ ReportLaneTotal
    \/ ReportEmit
    \/ Frames

SpecReport == InitReport /\ [][NextReport]_vars

(***************************************************************************)
(* The look-ahead thread on drawn traffic.  SpecLookAhead starts when      *)
(* line 661 has started the thread, with a queue of one of several        *)
(* mixtures of classes on the next approach, behind two cars that crossed *)
(* while that approach was shown green, or without them.                  *)
(***************************************************************************)
\* n vehicles of class c, spread over the three lanes
QueueOf(c, n) == [k \in 1 .. n |-> << k % 3, c >>]

\* the queues drawn for the next approach
LookQueues ==
    { << >>, QueueOf("rickshaw", 14), QueueOf("bus", 12) \o QueueOf("bike", 1),
      QueueOf("emergency", 31), QueueOf("truck", 15), QueueOf("car", 100) }

InitLookAhead ==
    \E g \in Approaches, q \in LookQueues, others \in BOOLEAN,
       moved \in BOOLEAN :
        LET W0 == IF moved
                  THEN RunFrames(SpawnedAll(EmptyWorld, NextSignal(g), Cars(2)),
                                 FramesPerStep, NextSignal(g), 0, 0)
                  ELSE EmptyWorld
            W1 == IF others
                  THEN SpawnedAll(SpawnedAll(W0, g, QueueOf("bus", 20)),
                                  NextSignal(NextSignal(g)), QueueOf("car", 40))
                  ELSE W0
            W == SpawnedAll(W1, NextSignal(g), q)
        IN  /\ InitWorld(W)
            /\ current_green = g
            /\ current_yellow = 0
            /\ signals = [InitialSignals EXCEPT
                            ![NextSignal(g)].red = DETECTION_TIME]
            /\ time_elapsed = LateTick
            /\ lane_last_green_time = [i \in Approaches |-> 0]
            /\ sched_pc = "green_loop"
            /\ selected_lane = g
            /\ emergency_round = FALSE
            /\ max_waiting_bound = TRUE
            /\ cycles = 1
            /\ detection = [NoDetection EXCEPT !.pc = "started"]
            /\ gen_pc = "sleep"
            /\ clock_pc = "run"
            /\ metrics = NoMetrics
            /\ pass = NoPass

NextLookAhead ==
    \/ DetectionCompute
    \/ DetectionStore

SpecLookAhead == InitLookAhead /\ [][NextLookAhead]_vars

(***************************************************************************)
(* The generator beside the change to yellow.  SpecYellow starts with a    *)
(* vehicle waiting on the approach that is green, whose green time has run *)
(* out, and a second vehicle for the same lane that the generator has just *)
(* created, or is creating: it may be in the lane list (line 173) without  *)
(* its stop position yet (line 186).                                       *)
(***************************************************************************)
\* Vehicle.__init__, lines 151-174: the world W with the new object in its
\* lane list, before lines 176-187
Appended(W, dnum, lane, vclass, will_turn, te) ==
    [W EXCEPT
       !.veh = Append(@, NewVehicle(lane, vclass, dnum, will_turn, te,
                                    Len(W.lanes[dnum][lane]))),
       !.lanes[dnum][lane] = Append(@, Len(W.veh) + 1)]

\* the classes drawn for the two vehicles
YellowClasses == {"car", "bus", "emergency"}

InitYellow ==
    \E a \in Approaches, l \in Lanes, c1 \in YellowClasses,
       c2 \in YellowClasses, building \in BOOLEAN :
        LET W1 == Spawned(EmptyWorld, a, l, c1, 0, 0)
            W2 == IF building
                  THEN Appended(W1, a, l, c2, 0, LateTick)
                  ELSE Spawned(W1, a, l, c2, 0, LateTick)
        IN  /\ InitWorld(W2)
            /\ current_green = a
            /\ current_yellow = 0
            /\ signals = GreenRunOut(a)
            /\ time_elapsed = LateTick
            /\ lane_last_green_time = [i \in Approaches |-> 0]
            /\ sched_pc = "green_loop"
            /\ selected_lane = a
            /\ emergency_round = FALSE
            /\ max_waiting_bound = TRUE
            /\ cycles = 1
            /\ detection = NoDetection
            /\ gen_pc = IF building THEN "building" ELSE "sleep"
            /\ clock_pc = "run"
            /\ metrics = NoMetrics
            /\ pass = NoPass

NextYellow ==
    \/ GenFinish
    \/ EnterYellow
    \/ YellowTick
    \/ EndYellow

SpecYellow == InitYellow /\ [][NextYellow]_vars

(***************************************************************************)
(* Properties of the signal phases, checked under Spec.                    *)
(***************************************************************************)
\* the approaches a moving vehicle or the display takes as not red
OpenApproaches ==
    { i \in Approaches :
        \/ GreenFor(DIRECTIONS(i), current_green, current_yellow)
        \/ SignalShown(i, current_green, current_yellow) # "red" }

\* C1: at every moment at most one approach is taken as GREEN or YELLOW by
\* vehicle motion and by the display, every other approach is RED for both,
\* and an approach that motion takes as green is displayed green.
C1_OneApproachOpen ==
    /\ Cardinality(OpenApproaches) <= 1
    /\ \A i \in Approaches :
          /\ GreenFor(DIRECTIONS(i), current_green, current_yellow)
                => SignalShown(i, current_green, current_yellow) = "green"
          /\ i # current_green
                => /\ SignalShown(i, current_green, current_yellow) = "red"
                   /\ ~GreenFor(DIRECTIONS(i), current_green, current_yellow)

\* the scheduler is in the yellow phase of approach 2, displayed yellow, with
\* a vehicle present
C1_InYellow ==
    /\ sched_pc = "yellow_loop"
    /\ current_yellow = 1
    /\ current_green = 2
    /\ SignalShown(2, current_green, current_yellow) = "yellow"
    /\ OpenApproaches = {2}
    /\ Len(veh) > 0

\* C2: an approach is taken as GREEN by vehicle motion only from its
\* selection until its YELLOW begins: not before the first selection, not
\* while the scheduler idles, not between the end of a YELLOW and the next
\* selection.
C2_GreenOnlyWhileServed ==
    \A i \in Approaches :
        GreenFor(DIRECTIONS(i), current_green, current_yellow)
            => /\ i = selected_lane
               /\ sched_pc \in {"set_green", "size_green", "green_loop"}

\* C8: when the scheduler evaluates with no uncrossed emergency vehicle and
\* no eligible approach it selects nothing: the green index, the yellow
\* flag, every signal counter and every last-served tick are as before, and
\* it goes to its one second sleep, from which it returns to the evaluation
\* with the same left untouched.
C8_IdleChangesNothing ==
    [][ /\ ( /\ sched_pc = "select"
             /\ sched_pc' # "select"
             /\ EarliestEmergencyLane(veh, lanes) = NoLane
             /\ Priorities(veh, lanes, time_elapsed, lane_last_green_time)
                    = << >> )
            => /\ sched_pc' = "idle_sleep"
               /\ UNCHANGED << current_green, current_yellow, signals,
                               lane_last_green_time >>
        /\ (sched_pc = "idle_sleep" /\ sched_pc' # "idle_sleep")
            => /\ sched_pc' = "select"
               /\ UNCHANGED << current_green, current_yellow, signals,
                               lane_last_green_time >> ]_vars

\* the scheduler sleeps after an evaluation that found nothing to serve,
\* a green phase having been run before and a vehicle being in the scene
C8_Idling ==
    /\ sched_pc = "idle_sleep"
    /\ cycles > 0
    /\ Len(veh) > 0
    /\ EarliestEmergencyLane(veh, lanes) = NoLane
    /\ Priorities(veh, lanes, time_elapsed, lane_last_green_time) = << >>

\* C10: a vehicle's crossed flag goes from 0 to 1 at most once and never
\* back, its crossing tick is set then and not before the tick it was
\* spawned, and every recorded wait time is non-negative.
C10_CrossedOnce ==
    /\ [](/\ \A k \in 1 .. Len(waiting_times) : waiting_times[k] >= 0
          /\ Len(waiting_times)
                = Cardinality({id \in 1 .. Len(veh) : veh[id].crossed = 1})
          /\ \A id \in 1 .. Len(veh) :
                /\ veh[id].crossed \in {0, 1}
                /\ veh[id].crossed = 1
                      => veh[id].cross_time >= veh[id].spawn_time
                /\ veh[id].crossed = 0 => veh[id].cross_time = NoTime)
    /\ [][\A id \in 1 .. Len(veh) :
             veh[id].crossed = 1
                => /\ veh'[id].crossed = 1
                   /\ veh'[id].cross_time = veh[id].cross_time]_vars

\* a vehicle spawned at tick 0 has crossed at tick 1 and its wait of one
\* second is recorded
C10_CrossedLater ==
    \E id \in 1 .. Len(veh) :
        /\ veh[id].crossed = 1
        /\ veh[id].spawn_time = 0
        /\ veh[id].cross_time = 1
        /\ waiting_times = << 1 >>

(***************************************************************************)
(* Properties of the selection and of the sizing, checked under            *)
(* SpecSelect.                                                             *)
(***************************************************************************)
\* the uncrossed emergency vehicles
WaitingEmergencies ==
    { id \in 1 .. Len(veh) : IsWaitingEmergency(veh[id]) }

\* the waiting count and the seconds since last served of approach i, as
\* the evaluation of the current state reads them
Waiting(i) == WaitingCount(veh, lanes, i)
SinceServed(i) == time_elapsed - lane_last_green_time[i]

\* the scheduler has just selected by the emergency scan / by the scores
EmergencySelected == sched_pc = "set_green" /\ emergency_round
NormalSelected == sched_pc = "set_green" /\ ~emergency_round

\* C3: with uncrossed emergency vehicles on two approaches, at differing
\* distances from their stop lines, the approach of the nearer one is
\* selected.
C3_NearerEmergencySelected ==
    EmergencySelected =>
        \A a \in WaitingEmergencies, b \in WaitingEmergencies :
            ( /\ WaitingEmergencies = {a, b}
              /\ veh[a].direction_number # veh[b].direction_number
              /\ DistanceToStopLine(veh[a]) < DistanceToStopLine(veh[b]) )
                => selected_lane = veh[a].direction_number

\* C4: when an uncrossed emergency vehicle exists the selection is by the
\* emergency scan: the selected approach is that of the first vehicle, in
\* scan order, that holds the minimum arrival proxy among the uncrossed
\* emergency vehicles, and it contains one; the normal scores have no say.
C4_EmergencyOverride ==
    LET scan == ScanSeq(lanes)
        E == { k \in 1 .. Len(scan) : IsWaitingEmergency(veh[scan[k]]) }
        first == CHOOSE k \in E : \A j \in E :
                    \/ ArrivalEstimate(veh[scan[k]])
                           < ArrivalEstimate(veh[scan[j]])
                    \/ /\ ArrivalEstimate(veh[scan[k]])
                              = ArrivalEstimate(veh[scan[j]])
                       /\ k <= j
    IN  /\ EmergencySelected
            => /\ E # { }
               /\ selected_lane = veh[scan[first]].direction_number
               /\ \E id \in WaitingEmergencies :
                      veh[id].direction_number = selected_lane
        /\ (NormalSelected \/ sched_pc = "idle_sleep") => E = { }

\* selected by the emergency scan with emergency vehicles on several
\* approaches, two of them holding the minimum proxy, where the scores
\* would have selected another approach
C4_TiedEmergencies ==
    /\ EmergencySelected
    /\ \E a \in WaitingEmergencies, b \in WaitingEmergencies :
          /\ veh[a].direction_number = selected_lane
          /\ veh[b].direction_number # selected_lane
          /\ ArrivalEstimate(veh[a]) = ArrivalEstimate(veh[b])
    /\ Priorities(veh, lanes, time_elapsed, lane_last_green_time) # << >>
    /\ NormalSelection(veh, lanes, time_elapsed, lane_last_green_time)
          # selected_lane

\* C5: with no uncrossed emergency vehicle, the selected approach has
\* waiting vehicles and no approach with waiting vehicles has a higher
\* waitingCount + 0.2 * secondsSinceLastServed (compared as 5 * count +
\* seconds).
C5_HighestPriority ==
    NormalSelected =>
        /\ Waiting(selected_lane) > 0
        /\ \A i \in Approaches :
              Waiting(i) > 0
                 => 5 * Waiting(i) + SinceServed(i)
                       <= 5 * Waiting(selected_lane) + SinceServed(selected_lane)

\* the approach with 12 waiting served 40 s ago is selected over the one
\* with 3 waiting served 5 s ago
C5_Example ==
    /\ NormalSelected
    /\ Waiting(selected_lane) = 12
    /\ SinceServed(selected_lane) = 40
    /\ \E i \in Approaches : Waiting(i) = 3 /\ SinceServed(i) = 5

\* the eligible approaches whose score equals that of the selected one
TiedWithSelected ==
    { i \in Approaches :
        /\ Waiting(i) > 0
        /\ PriorityScore(Waiting(i), SinceServed(i))
              = PriorityScore(Waiting(selected_lane),
                              SinceServed(selected_lane)) }

\* C6 as stated: among eligible approaches with the same highest score the
\* one with the lowest approach index is selected.
C6_LowestIndexOnTie ==
    NormalSelected => \A i \in TiedWithSelected : selected_lane <= i

\* C6: among eligible approaches with the same highest score the one with
\* the highest approach index is selected.
C6_HighestIndexOnTie ==
    NormalSelected => \A i \in TiedWithSelected : i <= selected_lane

\* selected by the scores with a lower-numbered approach tied
C6_Tie ==
    /\ NormalSelected
    /\ \E i \in TiedWithSelected : i < selected_lane

\* C7: in the normal selection an approach with no uncrossed vehicle is
\* never selected, however long since it was served.
C7_EmptyNeverSelected ==
    NormalSelected =>
        \A i \in Approaches : Waiting(i) = 0 => selected_lane # i

\* selected by the scores while an empty approach has gone unserved for
\* longer, long enough to outscore the selected one were it counted
C7_EmptyPassedOver ==
    /\ NormalSelected
    /\ \E i \in Approaches :
          /\ Waiting(i) = 0
          /\ SinceServed(i) > SinceServed(selected_lane)
          /\ SinceServed(i)
                > 5 * Waiting(selected_lane) + SinceServed(selected_lane)

\* every waiting vehicle of approach i is a car
OnlyCars(i) ==
    \A k \in 1 .. Len(ApproachSeq(lanes, i)) :
        LET v == veh[ApproachSeq(lanes, i)[k]]
        IN  v.crossed = 0 => v.vehicle_class = "car"

\* C9: every green value written by the nonlinear sizing and by the
\* look-ahead lies between DEFAULT_MINIMUM and DEFAULT_MAXIMUM: a count of 0
\* gives 10 and long queues (104 cars or more) give 60.
C9_GreenWithinLimits ==
    /\ \A i \in Approaches :
          signals[i].green \in DEFAULT_MINIMUM .. DEFAULT_MAXIMUM
    /\ sched_pc = "green_loop"
          => /\ Waiting(current_green) = 0
                   => signals[current_green].green = DEFAULT_MINIMUM
             /\ Waiting(current_green) >= 104
                   => signals[current_green].green = DEFAULT_MAXIMUM
    /\ detection.pc = "computed"
          => /\ detection.green_time \in DEFAULT_MINIMUM .. DEFAULT_MAXIMUM
             /\ Waiting(detection.next_signal) = 0
                   => detection.green_time = DEFAULT_MINIMUM
             /\ (Waiting(detection.next_signal) >= 104
                     /\ OnlyCars(detection.next_signal))
                   => detection.green_time = DEFAULT_MAXIMUM

\* the nonlinear sizing has written 60 for a queue of more than 104 and the
\* look-ahead has computed 10 for an empty approach
C9_BothLimits ==
    /\ sched_pc = "green_loop"
    /\ Waiting(current_green) > 104
    /\ signals[current_green].green = DEFAULT_MAXIMUM
    /\ detection.pc = "computed"
    /\ Waiting(detection.next_signal) = 0
    /\ detection.green_time = DEFAULT_MINIMUM

(***************************************************************************)
(* Properties of the motion, checked under SpecMove.                       *)
(***************************************************************************)
\* the vehicles of approach d that have crossed
CrossedOf(d) ==
    { id \in 1 .. Len(veh) :
        veh[id].direction_number = d /\ veh[id].crossed = 1 }

\* C11: the crossed counter of every approach is the number of its vehicles
\* whose crossed flag is set, so the four counters add up to the number of
\* vehicles that have crossed, and that is the length of the wait-time
\* series.
C11_CountersMatchCrossed ==
    /\ \A d \in Approaches : crossedCount[d] = Cardinality(CrossedOf(d))
    /\ crossedCount[0] + crossedCount[1] + crossedCount[2] + crossedCount[3]
          = Cardinality({id \in 1 .. Len(veh) : veh[id].crossed = 1})
    /\ Len(waiting_times)
          = crossedCount[0] + crossedCount[1] + crossedCount[2] + crossedCount[3]

\* both vehicles of an approach have crossed, one still to be moved in the
\* pass under way
C11_TwoCrossed ==
    /\ \E d \in Approaches : crossedCount[d] = 2 /\ Cardinality(CrossedOf(d)) = 2
    /\ Len(waiting_times) = 2
    /\ Len(pass.todo) = 1

\* the coordinate of the leading edge of v along its direction of travel,
\* as the move rules take it (lines 269, 331, 417, 478)
LeadingEdge(v) ==
    CASE v.direction = "right" -> v.x + ImageWidth(v)
      [] v.direction = "down" -> v.y + ImageHeight(v)
      [] v.direction = "left" -> v.x
      [] v.direction = "up" -> v.y

\* is the leading edge of v further along its direction of travel than
\* that of p
AheadAlong(v, p) ==
    IF v.direction \in {"right", "down"}
    THEN LeadingEdge(v) > LeadingEdge(p)
    ELSE LeadingEdge(v) < LeadingEdge(p)

\* the gap test of the straight rules fails for v behind p (lines 272, 334,
\* 420, 481)
HeldByGap(v, p) ==
    CASE v.direction = "right" -> ~(v.x + ImageWidth(v) < p.x - MOVING_GAP)
      [] v.direction = "down" -> ~(v.y + ImageHeight(v) < p.y - MOVING_GAP)
      [] v.direction = "left" -> ~(v.x > p.x + ImageWidth(p) + MOVING_GAP)
      [] v.direction = "up" -> ~(v.y > p.y + ImageHeight(p) + MOVING_GAP)

\* the pairs << earlier, later >> of vehicles of one lane list that have
\* both not crossed
UncrossedPairs ==
    { pr \in (1 .. Len(veh)) \X (1 .. Len(veh)) :
        /\ veh[pr[1]].crossed = 0
        /\ veh[pr[2]].crossed = 0
        /\ \E d \in Approaches, l \in Lanes :
              /\ PosIn(lanes[d][l], pr[1]) > 0
              /\ PosIn(lanes[d][l], pr[2]) > PosIn(lanes[d][l], pr[1]) }

Moves(id) ==
    /\ pass.todo # << >>
    /\ Head(pass.todo) = id
    /\ pass'.todo = Tail(pass.todo)

\* vehicle v has begun its rotation and not finished it (lines 296-305)
Rotating(v) == v.rotate_angle > 0 /\ v.turned = 0

\* C13: a move of a vehicle that has begun its rotation adds exactly
\* ROTATION_ANGLE = 3 to its angle, whatever the signal shows and wherever
\* the vehicle in front is; no move changes the angle otherwise than by
\* adding 3; the angle never exceeds 90; turned is set exactly when the
\* angle is 90, that is by the 30th move of the rotation, and is never
\* cleared.
C13_RotationBySteps ==
    /\ [](\A id \in 1 .. Len(veh) :
            /\ veh[id].rotate_angle \in 0 .. 90
            /\ veh[id].turned = 1 <=> veh[id].rotate_angle = 90)
    /\ [][\A id \in 1 .. Len(veh) :
            /\ Moves(id) /\ Rotating(veh[id])
                  => veh'[id].rotate_angle = veh[id].rotate_angle + ROTATION_ANGLE
            /\ veh'[id].rotate_angle
                  \in {veh[id].rotate_angle, veh[id].rotate_angle + ROTATION_ANGLE}
            /\ veh[id].turned = 1 => veh'[id].turned = 1]_vars

\* a vehicle behind another one of its lane has made the 30 moves of its
\* rotation and the signal of its approach is yellow
C13_TurnedBehindInYellow ==
    /\ current_yellow = 1
    /\ \E id \in 1 .. Len(veh) :
          /\ veh[id].direction_number = current_green
          /\ veh[id].turned = 1
          /\ veh[id].rotate_angle = 30 * ROTATION_ANGLE
          /\ PosIn(lanes[veh[id].direction_number][veh[id].lane], id) > 1

\* what one move of the rotation adds to << x, y >>, in 1/20 pixel: lines
\* 301-302 (x += 2, y += 1.8), 363-364 (x -= 2.5, y += 2), 448-449
\* (x -= 1.8, y -= 2.5) and 510-511 (x += 1, y -= 1)
RotationStep(d) ==
    CASE d = "right" -> << 40, 36 >>
      [] d = "down" -> << 0 - 50, 40 >>
      [] d = "left" -> << 0 - 36, 0 - 50 >>
      [] d = "up" -> << 20, 0 - 20 >>

\* what the step adds to << x, y >> of vehicle number id
Displacement(id) == << veh'[id].x - veh[id].x, veh'[id].y - veh[id].y >>

\* C18 as stated: a move changes neither coordinate of the vehicle by more
\* than the speed of its class.
C18_AtMostOneSpeedStep ==
    [][\A id \in 1 .. Len(veh) :
         Moves(id) =>
             /\ Displacement(id)[1] \in (0 - Speed(veh[id])) .. Speed(veh[id])
             /\ Displacement(id)[2] \in (0 - Speed(veh[id])) .. Speed(veh[id])]_vars

\* C18: a move that is not one of the rotation leaves the position of the
\* vehicle unchanged or changes one coordinate by exactly the speed of its
\* class; a move of the rotation changes both coordinates by the amounts
\* fixed for the direction, whatever the class.
C18_SpeedStepOrRotationStep ==
    [][\A id \in 1 .. Len(veh) :
         Moves(id) =>
             IF veh'[id].rotate_angle # veh[id].rotate_angle
             THEN Displacement(id) = RotationStep(veh[id].direction)
             ELSE \/ Displacement(id) = << 0, 0 >>
                  \/ /\ Displacement(id)[1] \in {0 - Speed(veh[id]), Speed(veh[id])}
                     /\ Displacement(id)[2] = 0
                  \/ /\ Displacement(id)[1] = 0
                     /\ Displacement(id)[2] \in {0 - Speed(veh[id]), Speed(veh[id])}]_vars

\* a bus has made the first move of its rotation and is further along by
\* more than its speed
C18_BusInRotation ==
    \E id \in 1 .. Len(veh) :
        /\ veh[id].vehicle_class = "bus"
        /\ veh[id].rotate_angle = ROTATION_ANGLE
        /\ RotationStep(veh[id].direction)[1] \notin
               (0 - Speed(veh[id])) .. Speed(veh[id])

\* vehicle number id is in the lane list of its lane
Queued(id) ==
    PosIn(lanes[veh[id].direction_number][veh[id].lane], id) # 0

\* C17: a vehicle that has crossed and has gone out of the scene, all of it
\* and by the margin at which it is no longer followed, has been removed
\* from its lane list; and a vehicle that is not in its lane list has
\* crossed and is out of the scene.
C17_GoneVehiclesRemoved ==
    \A id \in 1 .. Len(veh) :
        /\ (veh[id].crossed = 1 /\ FarOutside(veh[id])) => ~Queued(id)
        /\ ~Queued(id) => (veh[id].crossed = 1 /\ FarOutside(veh[id]))

\* the world as it is but for vehicle number id, which is not in its lane
\* list (the case of the except clause of lines 217-219)
Unlisted(id) ==
    [World EXCEPT
       !.lanes[veh[id].direction_number][veh[id].lane] = RemoveFrom(@, id)]

\* C19: vehicle.move() for a vehicle that is not in its lane list changes
\* nothing: not the vehicle, not the lane lists, the counters, the
\* wait-time series or the sprite group.  (No run of the program takes a
\* vehicle out of its lane list, see C17; the call is evaluated on every
\* world reached, with the vehicle taken out.)
C19_UnlistedMoveChangesNothing ==
    \A id \in 1 .. Len(veh) :
        MoveVehicle(Unlisted(id), id, current_green, current_yellow,
                    time_elapsed) = Unlisted(id)

\* a vehicle that the call would advance and mark as crossed, were it in
\* its lane list
C19_ListedWouldCross ==
    \E id \in 1 .. Len(veh) :
        LET W == MoveVehicle(World, id, current_green, current_yellow,
                             time_elapsed)
        IN  /\ W.veh[id].crossed = 1
            /\ veh[id].crossed = 0
            /\ W.veh[id].x # veh[id].x \/ W.veh[id].y # veh[id].y
            /\ MoveVehicle(Unlisted(id), id, current_green, current_yellow,
                            time_elapsed).veh[id] = veh[id]

\* the leading edge of v is beyond its stop position, by the comparisons
\* of lines 268, 330, 416 and 477
PastStop(v) ==
    CASE v.direction = "right" -> ~(v.x + ImageWidth(v) <= v.stop)
      [] v.direction = "down" -> ~(v.y + ImageHeight(v) <= v.stop)
      [] v.direction = "left" -> ~(v.x >= v.stop)
      [] v.direction = "up" -> ~(v.y >= v.stop)

\* the move is made for a vehicle with crossed = 0 that is beyond its stop
\* position while its approach has no green
HeldMove(id) ==
    /\ Moves(id)
    /\ veh[id].crossed = 0
    /\ PastStop(veh[id])
    /\ ~GreenFor(veh[id].direction, current_green, current_yellow)

\* C21 as stated: a vehicle with crossed = 0 that is beyond its stop
\* position is not displaced by a move made while its approach has no
\* green.
C21_HeldAtStop ==
    [][\A id \in 1 .. Len(veh) :
         HeldMove(id) => Displacement(id) = << 0, 0 >>]_vars

\* C21: such a move does not displace the vehicle unless its leading edge
\* is beyond the stop line as well: then the move marks it as crossed, and
\* it advances as a crossed vehicle does, held by the gap to the vehicle in
\* front only.
C21_HeldAtStopUnlessOverLine ==
    [][\A id \in 1 .. Len(veh) :
         HeldMove(id) =>
             IF PastStopLine(veh[id])
             THEN /\ veh'[id].crossed = 1
                  /\ \/ Displacement(id) # << 0, 0 >>
                     \/ HeldByGap(veh[id],
                                  veh[lanes[veh[id].direction_number][veh[id].lane]
                                        [PosIn(lanes[veh[id].direction_number]
                                                    [veh[id].lane], id) - 1]])
             ELSE /\ veh'[id].crossed = 0
                  /\ Displacement(id) = << 0, 0 >>]_vars

\* in yellow a vehicle of the approach stands beyond its stop position,
\* before the stop line, and has been moved since it was created
C21_StandingInYellow ==
    /\ current_yellow = 1
    /\ \E id \in 1 .. Len(veh) :
          /\ veh[id].direction_number = current_green
          /\ veh[id].crossed = 0
          /\ veh[id].waiting_time > 0
          /\ PastStop(veh[id])
          /\ ~PastStopLine(veh[id])
          /\ pass.todo # << >> /\ Head(pass.todo) # id

\* v is at or beyond the coordinate where its direction begins the turn,
\* by the comparisons of lines 282, 344, 429 and 491
AtTurnTrigger(v) ==
    CASE v.direction = "right" -> ~(v.x + ImageWidth(v) < TURN_MID_X(v.direction))
      [] v.direction = "down" -> ~(v.y + ImageHeight(v) < TURN_MID_Y(v.direction))
      [] v.direction = "left" -> ~(v.x > TURN_MID_X(v.direction))
      [] v.direction = "up" -> ~(v.y > TURN_MID_Y(v.direction))

\* C27: in every direction, a move of a vehicle with will_turn set that
\* has crossed, is at or beyond the turn trigger and has not turned is a
\* move of the rotation: it adds ROTATION_ANGLE to the angle (so that 30
\* such moves set turned).
C27_TurnBeginsAtTrigger ==
    [][\A id \in 1 .. Len(veh) :
         ( /\ Moves(id)
           /\ veh[id].will_turn = 1
           /\ veh'[id].crossed = 1
           /\ veh[id].turned = 0
           /\ AtTurnTrigger(veh[id]) )
             => veh'[id].rotate_angle = veh[id].rotate_angle + ROTATION_ANGLE]_vars

(***************************************************************************)
(* Properties of the threads' accesses to the lane lists, checked under    *)
(* Spec.  move_lock is taken by Vehicle.move alone (line 212).             *)
(***************************************************************************)
\* the step reads the lane lists for the selection (lines 588-627), for the
\* green time of the approach made green (lines 646-647) or for the green
\* time of the next approach (lines 557-562)
ReadsLaneLists ==
    \/ sched_pc = "select" /\ sched_pc' # "select"
    \/ sched_pc = "size_green" /\ sched_pc' # "size_green"
    \/ detection.pc = "started" /\ detection'.pc # "started"

\* a vehicle is in its lane list (line 173) whose construction has not yet
\* reached its stop position and the sprite group (lines 186-187)
InsertionUnderWay == gen_pc = "building"

\* C14: the scheduler and the look-ahead thread read the lane lists only
\* when no insertion of a created vehicle is under way, as they would if
\* insertions and reads were made holding the motion lock.
C14_ReadsOutsideInsertions ==
    [][ReadsLaneLists => ~InsertionUnderWay]_vars

(***************************************************************************)
(* Properties of one pass of the main loop, checked under SpecMove.        *)
(***************************************************************************)
\* C15: while a pass of the main loop over the sprite group has moves
\* still to make, current_green and current_yellow are what the first move
\* of the pass read: the scheduler changes them between passes only.
C15_PhaseFixedDuringPass ==
    (pass.todo # << >> /\ pass.phase # << >>)
        => pass.phase = << current_green, current_yellow >>

(***************************************************************************)
(* Properties of the clock, checked under SpecClockFair.                   *)
(***************************************************************************)
\* the process has ended
Terminated == clock_pc = "exited"

\* C16 as stated: the run ends only after the metrics were emitted, with
\* time_elapsed equal to SIM_TIME.
C16_EndsOnlyAfterMetrics ==
    Terminated => (metrics.emitted = 1 /\ time_elapsed = SIM_TIME)

\* C16: time_elapsed starts at 0, goes up by exactly one in every
\* iteration of the clock loop and is changed by nothing else, and never
\* exceeds SIM_TIME = 300; the metrics are emitted at most once, and only
\* with time_elapsed = SIM_TIME, by the step that ends the process; the
\* process ends either by that step or by a step that emits nothing (the
\* exit of the main loop); and with the clock thread taking its steps the
\* process eventually ends.
C16_ClockRunsToTheEnd ==
    /\ time_elapsed = 0
    /\ [](time_elapsed \in 0 .. SIM_TIME)
    /\ [][IF clock_pc = "run" /\ clock_pc' = "slept"
          THEN time_elapsed' = time_elapsed + 1
          ELSE time_elapsed' = time_elapsed]_vars
    /\ [](metrics.emitted = 1 => (Terminated /\ time_elapsed = SIM_TIME))
    /\ [][metrics'.emitted # metrics.emitted
            => /\ metrics.emitted = 0
               /\ metrics'.emitted = 1
               /\ clock_pc = "report"
               /\ clock_pc' = "exited"]_vars
    /\ [][(~Terminated /\ Terminated')
            => \/ metrics'.emitted = 1 /\ time_elapsed = SIM_TIME
               \/ metrics' = metrics /\ metrics.emitted = 0]_vars
    /\ [][Terminated => UNCHANGED vars]_vars
    /\ <>Terminated

\* the clock has counted SIM_TIME ticks, the metrics are out and the
\* process has ended
C16_EndedWithMetrics ==
    /\ Terminated
    /\ time_elapsed = SIM_TIME
    /\ metrics.emitted = 1

(***************************************************************************)
(* Properties of the report, checked under SpecReport.                     *)
(***************************************************************************)
\* C20: in the metrics emitted, total_vehicles_passed is the sum of the
\* four lane counts, total_time_passed is time_elapsed,
\* vehicles_per_unit_time is the quotient of the two, and
\* average_waiting_time and max_waiting_time are the no-data value exactly
\* when the wait-time series is empty, its mean and maximum otherwise.
C20_ReportAddsUp ==
    metrics.emitted = 1 =>
        LET r == metrics.report
        IN  /\ r.total_vehicles_passed
                  = r.lane_counts[0] + r.lane_counts[1] + r.lane_counts[2]
                      + r.lane_counts[3]
            /\ r.total_time_passed = time_elapsed
            /\ r.vehicles_per_unit_time
                  = << r.total_vehicles_passed, r.total_time_passed >>
            /\ r.average_waiting_time = NoData <=> waiting_times = << >>
            /\ r.max_waiting_time = NoData <=> waiting_times = << >>
            /\ waiting_times # << >>
                  => /\ r.average_waiting_time
                          = << SumSeq(waiting_times), Len(waiting_times) >>
                     /\ r.max_waiting_time = << MaxSeq(waiting_times) >>

(***************************************************************************)
(* Properties of the signal counters, checked under Spec.                  *)
(***************************************************************************)
\* the step is the call update_signal_values() of line 658 or 675 (and not
\* the store of the look-ahead thread, line 574)
PhaseTick ==
    /\ sched_pc \in {"green_loop", "yellow_loop"}
    /\ sched_pc' = sched_pc
    /\ signals' # signals
    /\ ~(detection.pc = "computed" /\ detection'.pc = "none")

\* C22: a phase tick takes 1 from the green counter of the current
\* approach and adds 1 to its total green time while it is green, takes 1
\* from its yellow counter while it is yellow, and takes 1 from the red
\* counter of every other approach that is above 0; it changes no other
\* counter; and no counter is ever negative.
C22_TickEffect ==
    /\ [](\A i \in Approaches :
            /\ signals[i].red >= 0
            /\ signals[i].yellow >= 0
            /\ signals[i].green >= 0
            /\ signals[i].total_green_time >= 0)
    /\ [][PhaseTick =>
            \A i \in Approaches :
                IF i = current_green
                THEN /\ signals'[i].red = signals[i].red
                     /\ IF current_yellow = 0
                        THEN /\ signals'[i].green = signals[i].green - 1
                             /\ signals'[i].total_green_time
                                   = signals[i].total_green_time + 1
                             /\ signals'[i].yellow = signals[i].yellow
                        ELSE /\ signals'[i].yellow = signals[i].yellow - 1
                             /\ signals'[i].green = signals[i].green
                             /\ signals'[i].total_green_time
                                   = signals[i].total_green_time
                ELSE /\ signals'[i].red
                           = IF signals[i].red > 0 THEN signals[i].red - 1 ELSE 0
                     /\ signals'[i].green = signals[i].green
                     /\ signals'[i].yellow = signals[i].yellow
                     /\ signals'[i].total_green_time
                           = signals[i].total_green_time]_vars

\* yellow ticks have been counted, green ticks before them, while the red
\* counter of another approach stands at its floor
C22_TickedInYellow ==
    /\ sched_pc = "yellow_loop"
    /\ signals[current_green].yellow < DEFAULT_YELLOW
    /\ signals[current_green].total_green_time > 0
    /\ \E i \in Approaches : i # current_green /\ signals[i].red = 0
    /\ \E i \in Approaches : i # current_green /\ signals[i].red > 0

\* C23: while the scheduler is in the green loop of an approach, entered
\* with the green time that lines 646-653 computed, the green counter of
\* that approach changes only by a tick taking 1 from it: the look-ahead
\* thread does not write it.
C23_GreenCounterOnlyTicks ==
    [][(sched_pc = "green_loop" /\ sched_pc' = "green_loop")
         => \/ signals'[current_green].green = signals[current_green].green
            \/ /\ PhaseTick
               /\ signals'[current_green].green
                     = signals[current_green].green - 1]_vars

\* C25: the yellow loop is entered with the yellow counter of the current
\* approach at DEFAULT_YELLOW = 5 (every yellow counter is 5 outside the
\* loop), each step in the loop takes exactly 1 from it and nothing else
\* changes it, and the loop is left only at 0: 5 ticks.  The step that
\* leaves it puts the yellow counter back to 5 and the red counter to
\* DEFAULT_RED = 150 and goes to the selection; current_green changes only
\* at line 639, after a selection.
C25_YellowFiveTicks ==
    /\ [](sched_pc # "yellow_loop"
            => \A i \in Approaches : signals[i].yellow = DEFAULT_YELLOW)
    /\ [](sched_pc = "yellow_loop"
            => /\ current_yellow = 1
               /\ signals[current_green].yellow \in 0 .. DEFAULT_YELLOW)
    /\ [][(sched_pc = "yellow_loop" /\ sched_pc' = "yellow_loop")
            => \/ signals'[current_green].yellow
                     = signals[current_green].yellow - 1
               \/ signals' = signals
               \/ detection.pc = "computed" /\ detection'.pc = "none"
                    /\ signals'[current_green].yellow
                          = signals[current_green].yellow]_vars
    /\ [][(sched_pc = "yellow_loop" /\ sched_pc' # "yellow_loop")
            => /\ signals[current_green].yellow = 0
               /\ sched_pc' = "select"
               /\ current_green' = current_green
               /\ current_yellow' = 0
               /\ signals'[current_green].yellow = DEFAULT_YELLOW
               /\ signals'[current_green].red = DEFAULT_RED]_vars
    /\ [][current_green' # current_green => sched_pc = "set_green"]_vars

\* a yellow phase is over and the scheduler is at the selection again
C25_AfterYellow ==
    /\ sched_pc = "select"
    /\ cycles > 0
    /\ current_yellow = 0
    /\ signals[current_green].total_green_time > 0
    /\ signals[current_green].yellow = DEFAULT_YELLOW
    /\ signals[current_green].red = DEFAULT_RED

C29_SchedulerNeverStops ==
    /\ [](Running => sched_pc \in {"select", "idle_sleep", "set_green",
                                    "size_green", "green_loop", "yellow_loop"})
    /\ [][(sched_pc = "set_green" /\ sched_pc' # "set_green")
            => sched_pc' = "size_green"]_vars

(***************************************************************************)
(* Properties of the yellow phase, checked under SpecYellow.               *)
(***************************************************************************)
\* C24: while the scheduler is in the yellow loop and no vehicle is under
\* construction, every vehicle in a lane list of the current approach has
\* the default stop position of the direction.
C24_DefaultStopsInYellow ==
    (sched_pc = "yellow_loop" /\ gen_pc = "sleep")
        => \A id \in 1 .. Len(veh) :
              (veh[id].direction_number = current_green /\ Queued(id))
                  => veh[id].stop = DEFAULT_STOPS(veh[id].direction)

(***************************************************************************)
(* Properties of the look-ahead thread, checked under SpecLookAhead.       *)
(***************************************************************************)
\* the vehicles of class c on approach i that have not crossed
UncrossedOfClass(i, c) ==
    { id \in 1 .. Len(veh) :
        /\ veh[id].direction_number = i
        /\ veh[id].vehicle_class = c
        /\ veh[id].crossed = 0 }

\* four times the sum, over the vehicles of approach i that have not
\* crossed, of the seconds of their class: 2 car, 1 bike, 2.25 rickshaw,
\* 2.5 bus, 2.5 truck, and 1 for a class without an entry (lines 35-41)
QuarterSeconds(i) ==
    8 * Cardinality(UncrossedOfClass(i, "car"))
      + 4 * Cardinality(UncrossedOfClass(i, "bike"))
      + 9 * Cardinality(UncrossedOfClass(i, "rickshaw"))
      + 10 * Cardinality(UncrossedOfClass(i, "bus"))
      + 10 * Cardinality(UncrossedOfClass(i, "truck"))
      + 4 * Cardinality(UncrossedOfClass(i, "emergency"))

\* the least whole number of seconds that is at least a third of that sum,
\* kept within DEFAULT_MINIMUM = 10 and DEFAULT_MAXIMUM = 60
ThirdCeilingClamped(i) ==
    LET k == CHOOSE n \in 0 .. QuarterSeconds(i) :
                 /\ 12 * n >= QuarterSeconds(i)
                 /\ 12 * (n - 1) < QuarterSeconds(i)
    IN  IF k < 10 THEN 10 ELSE IF k > 60 THEN 60 ELSE k

\* C26: a run of the look-ahead thread takes the approach after the
\* current one, computes for it the ceiling of a third of the clearance
\* seconds of its vehicles that have not crossed, clamped to [10, 60] (10
\* when it has none), changing no signal meanwhile, and then stores that
\* value in the green field of that approach, changing no other field of
\* any signal.
C26_LookAheadStoresEstimate ==
    /\ [][(detection.pc = "started" /\ detection'.pc # "started")
            => /\ detection'.pc = "computed"
               /\ detection'.next_signal = (current_green + 1) % 4
               /\ detection'.green_time
                     = ThirdCeilingClamped((current_green + 1) % 4)
               /\ (QuarterSeconds((current_green + 1) % 4) = 0
                      => detection'.green_time = DEFAULT_MINIMUM)
               /\ signals' = signals]_vars
    /\ [][(detection.pc = "computed" /\ detection'.pc # "computed")
            => /\ signals'[detection.next_signal].green = detection.green_time
               /\ \A i \in Approaches :
                     /\ signals'[i].red = signals[i].red
                     /\ signals'[i].yellow = signals[i].yellow
                     /\ signals'[i].total_green_time
                           = signals[i].total_green_time
                     /\ i # detection.next_signal
                           => signals'[i].green = signals[i].green]_vars

\* the thread has stored an estimate strictly between the limits for a
\* next approach part of whose vehicles have crossed
C26_EstimateStored ==
    /\ detection.pc = "none"
    /\ signals[NextSignal(current_green)].green
          \notin {DEFAULT_MINIMUM, DEFAULT_MAXIMUM, DEFAULT_GREEN}
    /\ \E id \in 1 .. Len(veh) :
          /\ veh[id].direction_number = NextSignal(current_green)
          /\ veh[id].crossed = 1
    /\ \E id \in 1 .. Len(veh) :
          /\ veh[id].direction_number = NextSignal(current_green)
          /\ veh[id].crossed = 0


(***************************************************************************)
(* The scheduler and the timer thread over several rounds, on queues that  *)
(* stand (nothing is created and nothing moves) and hold no emergency      *)
(* vehicle.  A round sleeps 15 s or more (lines 665 and 676) while the     *)
(* timer thread sleeps 1 s a tick (line 785): a selection other than the   *)
(* first finds the clock after the tick of the selection before it, until  *)
(* the clock is at the last tick followed.  Both threads and the           *)
(* look-ahead thread are scheduled: their steps are taken fairly.          *)
(***************************************************************************)
\* the approach with one car and the approach with the other queue
ServePairs == { << 0, 2 >>, << 3, 1 >> }

InitServe ==
    \E ab \in ServePairs, n \in 1 .. ServeQueue :
      LET a == ab[1]
          b == ab[2]
      IN
        /\ InitSelectCommon
        /\ InitWorld(SpawnedAll(SpawnedAll(EmptyWorld, a, Cars(1)), b, Cars(n)))
        /\ current_green = 0
        /\ time_elapsed = 0
        /\ lane_last_green_time = [i \in Approaches |-> 0]
        /\ max_waiting_bound = FALSE
        /\ sched_pc = "select"
        /\ detection = NoDetection

\* the clock has moved on since the selection before this one
ClockMovedOn ==
    \/ cycles = 0
    \/ time_elapsed > lane_last_green_time[current_green]
    \/ time_elapsed = ServeTicks

ServeSelect == cycles < ServeCycles /\ ClockMovedOn /\ NormalPriority

ServeClock == time_elapsed < ServeTicks /\ ClockTick

NextServe ==
    \/ ServeSelect
    \/ SetGreen
    \/ SizeGreen
    \/ GreenTick
    \/ EnterYellow
    \/ YellowTick
    \/ EndYellow
    \/ DetectionCompute
    \/ DetectionStore
    \/ ServeClock
    \/ ClockLoop

SpecServe ==
    /\ InitServe
    /\ [][NextServe]_vars
    /\ WF_vars(ServeSelect)
    /\ WF_vars(SetGreen)
    /\ WF_vars(SizeGreen)
    /\ WF_vars(GreenTick)
    /\ WF_vars(EnterYellow)
    /\ WF_vars(YellowTick)
    /\ WF_vars(EndYellow)
    /\ WF_vars(DetectionCompute)
    /\ WF_vars(DetectionStore)
    /\ WF_vars(ServeClock)
    /\ WF_vars(ClockLoop)

(***************************************************************************)
(* Properties of the service of the approaches, checked under SpecServe.   *)
(***************************************************************************)
\* approach i has just been made the current green one
Served(i) == sched_pc = "size_green" /\ current_green = i

====
